---- MODULE Spec2Model ----
(***************************************************************************)
(* The niri state reducer of waybar-niri-windows (src/niri/niri_state.go): *)
(* State.Update applied to the events of src/niri/niri_event.go, and the   *)
(* read views State.Text and State.Windows.                                *)
(***************************************************************************)
EXTENDS Integers, Sequences, FiniteSets, TLC

VARIABLES
    workspaces,          \* State.workspaces: map id -> Workspace
    windows,             \* State.windows: map id -> Window
    currentWorkspaceId,  \* State.currentWorkspaceId
    currentWindowId,     \* State.currentWindowId
    needsRedraw,         \* State.needsRedraw
    panicked,            \* a run-time panic has unwound the calling goroutine
    call,                \* the most recent call on the State and what it returned
    onUpdate,            \* State.onUpdate: map id -> callback
    mu,                  \* State.mu, the sync.RWMutex
    pc,                  \* where each goroutine is in its call on the State
    locals,              \* the arguments and local variables of each call in progress
    hist,                \* the model before and after the Update in progress,
                         \* the callback last asked for under each id, the
                         \* ids whose callback another one has replaced, the
                         \* events listen has called Update with, and how
                         \* often niri.Init has connected
    socket,              \* the event socket: the lines that have arrived, how
                         \* many of them listen has read, and whether the
                         \* connection is closed and listen has returned
    instance,            \* the module Instance of a bar: its config, the bar
                         \* height it has kept, whether it is ready, and i.mu
    global               \* the plugin's state.State: its mutex, the instances
                         \* it holds, the niri connection, and the calls of
                         \* its methods in progress

vars == <<workspaces, windows, currentWorkspaceId, currentWindowId,
          needsRedraw, panicked, call, onUpdate, mu, pc, locals, hist,
          socket, instance, global>>

\* What only the calls that run step by step, next to other goroutines, change.
stepVars == <<onUpdate, mu, pc, locals, hist, socket, instance, global>>

----------------------------------------------------------------------------
(* Bounds of the model. *)

MaxWindowId == 1
MaxWorkspaceId == 2
MaxColumn == 2

WindowIds == 0..MaxWindowId
WorkspaceIds == 1..MaxWorkspaceId
Outputs == {"eDP-1", "HDMI-A-1"}

----------------------------------------------------------------------------
(* Values. *)

\* const None = uint64(0xffffffffffffffff): the reserved "no id" value, which
\* no id of the bounded id sets equals.
None == -1

\* Optional (pointer) fields: nil, or a pointer to a value.
Nil == << >>
Ptr(v) == <<v>>
Deref(p) == p[1]

\* Go maps as functions whose domain is the set of keys present.
EmptyMap == << >>
Put(m, k, v) == [x \in DOMAIN m \cup {k} |-> IF x = k THEN v ELSE m[x]]
Delete(m, k) == [x \in DOMAIN m \ {k} |-> m[x]]

\* Vec2[T]: the two components X and Y.
Vec2(x, y) == [X |-> x, Y |-> y]

\* WindowLayout: the two optional positions the reducer and the views read.
WindowLayout(pos, tilePos) ==
    [PosInScrollingLayout |-> pos, TilePosInWorkspaceView |-> tilePos]

\* Window: the fields State reads or writes.
Window(id, wk, focused, floating, urgent, layout, ts) ==
    [Id |-> id, WorkspaceId |-> wk, IsFocused |-> focused,
     IsFloating |-> floating, IsUrgent |-> urgent, Layout |-> layout,
     FocusTimestamp |-> ts]

\* Workspace: the fields State reads or writes, and ActiveWindowId, which
\* it stores with the record; a workspace arrives with no active window
\* unless an input set says otherwise.
Workspace(id, output, urgent, active, focused) ==
    [Id |-> id, Output |-> output, IsUrgent |-> urgent, IsActive |-> active,
     IsFocused |-> focused, ActiveWindowId |-> Nil]

----------------------------------------------------------------------------
(* The goroutines that call the State, and its lock. *)

\* listen applies the events (niri_ipc.go), render reads the views, init
\* registers and removes callbacks.
Threads == {"listen", "render", "init"}

\* sync.RWMutex: writer is the goroutine that holds the lock or, not yet
\* locked, waits for the readers to leave; while there is one, RLock blocks.
\* readers counts the read locks each goroutine holds.
Unlocked == [writer |-> "", locked |-> FALSE, readers |-> [t \in Threads |-> 0]]

CanLock(m) == m.writer = ""
LockWait(m, t) == [m EXCEPT !.writer = t]
CanEnter(m, t) == m.writer = t /\ \A r \in Threads : m.readers[r] = 0
Lock(m, t) == [m EXCEPT !.locked = TRUE]
Unlock(m, t) == [m EXCEPT !.writer = "", !.locked = FALSE]
CanRLock(m) == m.writer = ""
RLock(m, t) == [m EXCEPT !.readers[t] = @ + 1]
RUnlock(m, t) == [m EXCEPT !.readers[t] = @ - 1]

\* The four fields of the State that Update writes and the views read.
Model ==
    [workspaces |-> workspaces, windows |-> windows,
     currentWorkspaceId |-> currentWorkspaceId, currentWindowId |-> currentWindowId]

----------------------------------------------------------------------------
(* NewNiriState *)

\* module.New: the config an Instance starts with; it has no bar height yet
\* and is not ready before Instance.Init.
GraphicalMode == "graphical"
TextMode == "text"

\* The Instance while no Update is drawing, and the local variables of
\* calculateWindowSizes before its call.
NoDraw ==
    [loop |-> "idle", columns |-> << >>, k |-> 0, maxHeight |-> 0,
     h |-> << >>, rem |-> 0, idx |-> 0, iter |-> 0, inner |-> 0]

NewInstance ==
    [config |-> [Mode |-> GraphicalMode, MinimumSize |-> 1, Spacing |-> 1],
     allocatedHeight |-> 0, screenHeight |-> 0, ready |-> FALSE,
     draw |-> NoDraw, windowHeights |-> << >>, mu |-> Unlocked]

\* state.New: the plugin's State holds its RWMutex in the field mu, no
\* instance and no niri connection.  lock is the state of that RWMutex.
RWMutex == "RWMutex"
noopMutex == "noopMutex"

NewGlobal ==
    [mu |-> RWMutex, lock |-> Unlocked, instances |-> {},
     niriState |-> Nil, niriSocket |-> Nil]

Init ==
    /\ workspaces = EmptyMap
    /\ windows = EmptyMap
    /\ currentWorkspaceId = None
    /\ currentWindowId = None
    /\ needsRedraw = FALSE
    /\ panicked = FALSE
    /\ call = [op |-> "NewNiriState"]
    /\ onUpdate = EmptyMap
    /\ mu = Unlocked
    /\ pc = [t \in Threads |-> "idle"]
    /\ locals = [t \in Threads |->
                    IF t = "listen"
                    THEN [event |-> [type |-> ""], callbacks |-> << >>, invoked |-> << >>]
                    ELSE [op |-> "", id |-> 0, f |-> ""]]
    /\ hist = [before |-> Model, after |-> Model, latest |-> EmptyMap,
               replaced |-> {}, updates |-> << >>, connects |-> 0]
    /\ socket = [arrived |-> << >>, read |-> 0, closed |-> FALSE,
                 listening |-> TRUE]
    /\ instance = NewInstance
    /\ global = NewGlobal

----------------------------------------------------------------------------
(* State.Update, one action per case of its type switch.  Every action is  *)
(* one whole call: needsRedraw is reset first, then the case runs.  Taken  *)
(* alone, an action is the call with no callback registered and no other   *)
(* goroutine in the State; the steps of a call among other goroutines      *)
(* follow further down.                                                    *)

\* What Update's caller passed.
UpdateCall(event) == [op |-> "Update", event |-> event]

\* case *WorkspacesChanged: the loop over event.Workspaces from index i on.
RECURSIVE WorkspacesChangedLoop(_, _, _, _, _)
WorkspacesChangedLoop(wks, cur, redraw, list, i) ==
    IF i > Len(list) THEN [workspaces |-> wks, currentWorkspaceId |-> cur,
                           needsRedraw |-> redraw]
    ELSE LET wk == list[i]
             newly == wk.IsFocused /\ wk.Id # cur
         IN  WorkspacesChangedLoop(Put(wks, wk.Id, wk),
                                   IF newly THEN wk.Id ELSE cur,
                                   redraw \/ newly, list, i + 1)

\* A variant that stores the snapshot over the workspaces already held.
WorkspacesChangedMerge(list) ==
    LET r == WorkspacesChangedLoop(workspaces, currentWorkspaceId, FALSE, list, 1)
    IN  /\ ~panicked
        /\ workspaces' = r.workspaces
        /\ currentWorkspaceId' = r.currentWorkspaceId
        /\ needsRedraw' = r.needsRedraw
        /\ call' = UpdateCall([type |-> "WorkspacesChanged", Workspaces |-> list])
        /\ UNCHANGED <<windows, currentWindowId, panicked>>

\* A variant that takes the snapshot for a new session and drops the
\* windows with the workspaces.
WorkspacesChangedAndWindows(list) ==
    LET r == WorkspacesChangedLoop(EmptyMap, currentWorkspaceId, FALSE, list, 1)
    IN  /\ ~panicked
        /\ workspaces' = r.workspaces
        /\ currentWorkspaceId' = r.currentWorkspaceId
        /\ windows' = EmptyMap
        /\ currentWindowId' = None
        /\ needsRedraw' = r.needsRedraw
        /\ call' = UpdateCall([type |-> "WorkspacesChanged", Workspaces |-> list])
        /\ UNCHANGED panicked

WorkspacesChanged(list) ==
    LET r == WorkspacesChangedLoop(EmptyMap, currentWorkspaceId, FALSE, list, 1)
    IN  /\ ~panicked
        /\ workspaces' = r.workspaces
        /\ currentWorkspaceId' = r.currentWorkspaceId
        /\ needsRedraw' = r.needsRedraw
        /\ call' = UpdateCall([type |-> "WorkspacesChanged", Workspaces |-> list])
        /\ UNCHANGED <<windows, currentWindowId, panicked>>

\* A variant that leaves the flags as they are.
KeepIsFocused(m) == m

\* Every record of a map with one flag cleared (the "for _, w := range" loops).
ClearIsFocused(m) == [x \in DOMAIN m |-> [m[x] EXCEPT !.IsFocused = FALSE]]

\* A variant that moves the cursor to a newly focused window and leaves the
\* flags of the other windows as they are.
WindowOpenedOrChangedKeepsOthers(window) ==
    LET newly == window.IsFocused /\ window.Id # currentWindowId
    IN  /\ ~panicked
        /\ windows' = Put(windows, window.Id, window)
        /\ currentWindowId' = IF newly THEN window.Id ELSE currentWindowId
        /\ needsRedraw' = TRUE
        /\ call' = UpdateCall([type |-> "WindowOpenedOrChanged", Window |-> window])
        /\ UNCHANGED <<workspaces, currentWorkspaceId, panicked>>

\* case *WindowOpenedOrChanged
WindowOpenedOrChanged(window) ==
    LET stored == Put(windows, window.Id, window)
        newly == window.IsFocused /\ window.Id # currentWindowId
    IN  /\ ~panicked
        /\ windows' = IF newly
                      THEN Put(ClearIsFocused(stored), window.Id,
                               [window EXCEPT !.IsFocused = TRUE])
                      ELSE stored
        /\ currentWindowId' = IF newly THEN window.Id ELSE currentWindowId
        /\ needsRedraw' = TRUE
        /\ call' = UpdateCall([type |-> "WindowOpenedOrChanged", Window |-> window])
        /\ UNCHANGED <<workspaces, currentWorkspaceId, panicked>>

\* A variant that compares the Output pointers, not the names they point
\* to: no other workspace shares wk's pointer.
DeactivateSamePointer(wks, output) == wks

\* The first loop of case *WorkspaceActivated: IsActive cleared on every
\* workspace that shares wk's output; a workspace without an output is skipped.
DeactivateOutput(wks, output) ==
    [x \in DOMAIN wks |->
        IF wks[x].Output # Nil /\ Deref(output) = Deref(wks[x].Output)
        THEN [wks[x] EXCEPT !.IsActive = FALSE]
        ELSE wks[x]]

\* A variant that moves the focus whether or not the event says Focused.
WorkspaceActivatedAndFocused(Id, Focused) ==
    LET found == Id \in DOMAIN workspaces /\ workspaces[Id].Output # Nil
        active == [DeactivateOutput(workspaces, workspaces[Id].Output)
                       EXCEPT ![Id].IsActive = TRUE]
    IN  /\ ~panicked
        /\ workspaces' = IF ~found THEN workspaces
                         ELSE [ClearIsFocused(active) EXCEPT ![Id].IsFocused = TRUE]
        /\ currentWorkspaceId' = IF found THEN Id ELSE currentWorkspaceId
        /\ needsRedraw' = TRUE
        /\ call' = UpdateCall([type |-> "WorkspaceActivated", Id |-> Id, Focused |-> Focused])
        /\ UNCHANGED <<windows, currentWindowId, panicked>>

\* case *WorkspaceActivated
WorkspaceActivated(Id, Focused) ==
    LET found == Id \in DOMAIN workspaces /\ workspaces[Id].Output # Nil
        active == [DeactivateOutput(workspaces, workspaces[Id].Output)
                       EXCEPT ![Id].IsActive = TRUE]
    IN  /\ ~panicked
        /\ workspaces' = IF ~found THEN workspaces
                         ELSE IF Focused
                              THEN [ClearIsFocused(active) EXCEPT ![Id].IsFocused = TRUE]
                              ELSE active
        /\ currentWorkspaceId' = IF found /\ Focused THEN Id ELSE currentWorkspaceId
        /\ needsRedraw' = TRUE
        /\ call' = UpdateCall([type |-> "WorkspaceActivated", Id |-> Id, Focused |-> Focused])
        /\ UNCHANGED <<windows, currentWindowId, panicked>>

\* A variant whose nil branch resets the cursor and leaves the flags.
WindowFocusChangedNilKeepsFlags(Id) ==
    /\ ~panicked
    /\ windows' = IF Id = Nil THEN windows
                  ELSE IF Deref(Id) \in DOMAIN windows
                  THEN [ClearIsFocused(windows) EXCEPT ![Deref(Id)].IsFocused = TRUE]
                  ELSE ClearIsFocused(windows)
    /\ currentWindowId' = IF Id = Nil THEN None
                          ELSE IF Deref(Id) \in DOMAIN windows THEN Deref(Id)
                          ELSE currentWindowId
    /\ needsRedraw' = TRUE
    /\ call' = UpdateCall([type |-> "WindowFocusChanged", Id |-> Id])
    /\ UNCHANGED <<workspaces, currentWorkspaceId, panicked>>

\* A variant that moves the cursor to the id whether or not a window is
\* stored under it.
WindowFocusChangedAnyId(Id) ==
    /\ ~panicked
    /\ windows' = IF Id # Nil /\ Deref(Id) \in DOMAIN windows
                  THEN [ClearIsFocused(windows) EXCEPT ![Deref(Id)].IsFocused = TRUE]
                  ELSE ClearIsFocused(windows)
    /\ currentWindowId' = IF Id = Nil THEN None ELSE Deref(Id)
    /\ needsRedraw' = TRUE
    /\ call' = UpdateCall([type |-> "WindowFocusChanged", Id |-> Id])
    /\ UNCHANGED <<workspaces, currentWorkspaceId, panicked>>

\* case *WindowFocusChanged: Id is nil or points to a window id.
WindowFocusChanged(Id) ==
    /\ ~panicked
    /\ windows' = IF Id # Nil /\ Deref(Id) \in DOMAIN windows
                  THEN [ClearIsFocused(windows) EXCEPT ![Deref(Id)].IsFocused = TRUE]
                  ELSE ClearIsFocused(windows)
    /\ currentWindowId' = IF Id = Nil THEN None
                          ELSE IF Deref(Id) \in DOMAIN windows THEN Deref(Id)
                          ELSE currentWindowId
    /\ needsRedraw' = TRUE
    /\ call' = UpdateCall([type |-> "WindowFocusChanged", Id |-> Id])
    /\ UNCHANGED <<workspaces, currentWorkspaceId, panicked>>

\* A variant that takes the timestamp for a change of focus as well.
WindowFocusTimestampChangedAndFocused(Id, FocusTimestamp) ==
    /\ ~panicked
    /\ windows' = IF Id \in DOMAIN windows
                  THEN [ClearIsFocused(windows) EXCEPT ![Id].FocusTimestamp = FocusTimestamp,
                                                       ![Id].IsFocused = TRUE]
                  ELSE windows
    /\ currentWindowId' = IF Id \in DOMAIN windows THEN Id ELSE currentWindowId
    /\ needsRedraw' = FALSE
    /\ call' = UpdateCall([type |-> "WindowFocusTimestampChanged", Id |-> Id,
                           FocusTimestamp |-> FocusTimestamp])
    /\ UNCHANGED <<workspaces, currentWorkspaceId, panicked>>

\* case *WindowFocusTimestampChanged
WindowFocusTimestampChanged(Id, FocusTimestamp) ==
    /\ ~panicked
    /\ windows' = IF Id \in DOMAIN windows
                  THEN [windows EXCEPT ![Id].FocusTimestamp = FocusTimestamp]
                  ELSE windows
    /\ needsRedraw' = FALSE
    /\ call' = UpdateCall([type |-> "WindowFocusTimestampChanged", Id |-> Id,
                           FocusTimestamp |-> FocusTimestamp])
    /\ UNCHANGED <<workspaces, currentWorkspaceId, currentWindowId, panicked>>

\* A variant that deletes the window and leaves the cursor on it.
WindowClosedKeepsCursor(Id) ==
    /\ ~panicked
    /\ windows' = Delete(windows, Id)
    /\ needsRedraw' = TRUE
    /\ call' = UpdateCall([type |-> "WindowClosed", Id |-> Id])
    /\ UNCHANGED <<workspaces, currentWorkspaceId, currentWindowId, panicked>>

\* case *WindowClosed
WindowClosed(Id) ==
    /\ ~panicked
    /\ windows' = Delete(windows, Id)
    /\ currentWindowId' = IF currentWindowId = Id THEN None ELSE currentWindowId
    /\ needsRedraw' = TRUE
    /\ call' = UpdateCall([type |-> "WindowClosed", Id |-> Id])
    /\ UNCHANGED <<workspaces, currentWorkspaceId, panicked>>

\* case *WindowLayoutsChanged: the loop over event.Changes from index i on.
\* s.windows[change.Id] is nil for an id that is not in the map, and the
\* assignment to window.Layout then dereferences nil: the loop stops there
\* with a panic, the earlier changes applied.
RECURSIVE WindowLayoutsChangedLoop(_, _, _)
WindowLayoutsChangedLoop(wins, changes, i) ==
    IF i > Len(changes) THEN [windows |-> wins, panicked |-> FALSE]
    ELSE LET change == changes[i]
         IN  IF change.Id \notin DOMAIN wins
             THEN [windows |-> wins, panicked |-> TRUE]
             ELSE WindowLayoutsChangedLoop(
                      [wins EXCEPT ![change.Id].Layout = change.WindowLayout],
                      changes, i + 1)

WindowLayoutsChanged(changes) ==
    LET r == WindowLayoutsChangedLoop(windows, changes, 1)
    IN  /\ ~panicked
        /\ windows' = r.windows
        /\ panicked' = r.panicked
        /\ needsRedraw' = TRUE
        /\ call' = UpdateCall([type |-> "WindowLayoutsChanged", Changes |-> changes])
        /\ UNCHANGED <<workspaces, currentWorkspaceId, currentWindowId>>

\* case *WindowsChanged: the loop over event.Windows from index i on.  The
\* map is not reset first: the listed windows are stored over what is there.
RECURSIVE WindowsChangedLoop(_, _, _, _)
WindowsChangedLoop(wins, cur, list, i) ==
    IF i > Len(list) THEN [windows |-> wins, currentWindowId |-> cur]
    ELSE LET window == list[i]
         IN  WindowsChangedLoop(Put(wins, window.Id, window),
                                IF window.IsFocused /\ window.Id # cur
                                THEN window.Id ELSE cur,
                                list, i + 1)

WindowsChanged(list) ==
    LET r == WindowsChangedLoop(windows, currentWindowId, list, 1)
    IN  /\ ~panicked
        /\ windows' = r.windows
        /\ currentWindowId' = r.currentWindowId
        /\ needsRedraw' = TRUE
        /\ call' = UpdateCall([type |-> "WindowsChanged", Windows |-> list])
        /\ UNCHANGED <<workspaces, currentWorkspaceId, panicked>>

\* A variant that flips the flag on Urgent = true instead of setting it.
WindowUrgencyToggled(Id, Urgent) ==
    /\ ~panicked
    /\ windows' = IF Id \in DOMAIN windows
                  THEN [windows EXCEPT ![Id].IsUrgent = (@ # Urgent)]
                  ELSE windows
    /\ needsRedraw' = (Id \in DOMAIN windows)
    /\ call' = UpdateCall([type |-> "WindowUrgencyChanged", Id |-> Id, Urgent |-> Urgent])
    /\ UNCHANGED <<workspaces, currentWorkspaceId, currentWindowId, panicked>>

\* case *WindowUrgencyChanged
WindowUrgencyChanged(Id, Urgent) ==
    /\ ~panicked
    /\ windows' = IF Id \in DOMAIN windows
                  THEN [windows EXCEPT ![Id].IsUrgent = Urgent]
                  ELSE windows
    /\ needsRedraw' = (Id \in DOMAIN windows)
    /\ call' = UpdateCall([type |-> "WindowUrgencyChanged", Id |-> Id, Urgent |-> Urgent])
    /\ UNCHANGED <<workspaces, currentWorkspaceId, currentWindowId, panicked>>

\* case *WorkspaceUrgencyChanged
WorkspaceUrgencyChanged(Id, Urgent) ==
    /\ ~panicked
    /\ workspaces' = IF Id \in DOMAIN workspaces
                     THEN [workspaces EXCEPT ![Id].IsUrgent = Urgent]
                     ELSE workspaces
    /\ needsRedraw' = (Id \in DOMAIN workspaces)
    /\ call' = UpdateCall([type |-> "WorkspaceUrgencyChanged", Id |-> Id, Urgent |-> Urgent])
    /\ UNCHANGED <<windows, currentWorkspaceId, currentWindowId, panicked>>

\* The event types that no case of the switch names.
IgnoredEventTypes ==
    {"WorkspaceActiveWindowChanged", "KeyboardLayoutsChanged", "KeyboardLayoutSwitched",
     "OverviewOpenedOrClosed", "ConfigLoaded", "ScreenshotCaptured"}

\* default: every other event type is ignored.
IgnoredEvent(type) ==
    /\ ~panicked
    /\ needsRedraw' = FALSE
    /\ call' = UpdateCall([type |-> type])
    /\ UNCHANGED <<workspaces, windows, currentWorkspaceId, currentWindowId, panicked>>

\* default, for a *WorkspaceActiveWindowChanged: the event with its two
\* fields, which no case of the switch reads.
WorkspaceActiveWindowChanged(WorkspaceId, ActiveWindowId) ==
    /\ ~panicked
    /\ needsRedraw' = FALSE
    /\ call' = UpdateCall([type |-> "WorkspaceActiveWindowChanged",
                           WorkspaceId |-> WorkspaceId,
                           ActiveWindowId |-> ActiveWindowId])
    /\ UNCHANGED <<workspaces, windows, currentWorkspaceId, currentWindowId, panicked>>

----------------------------------------------------------------------------
(* The read views State.Windows and State.Text.  A view changes nothing of *)
(* the model; `call` holds what it returned.  Go ranges over a map in an   *)
(* unspecified order, so wherever the order shows, every order is taken.   *)

\* The output a view looks at: monitor, or for "" the output of the focused
\* workspace ("" again when that workspace has no output).
ResolveMonitor(monitor) ==
    IF monitor = "" /\ workspaces[currentWorkspaceId].Output # Nil
    THEN Deref(workspaces[currentWorkspaceId].Output)
    ELSE monitor

\* A variant whose search does not look at IsActive.
TargetWorkspacesAnyActivity(monitor) ==
    {id \in DOMAIN workspaces :
        workspaces[id].Output # Nil /\ Deref(workspaces[id].Output) = monitor}

\* The workspaces the search for targetWorkspaceId can stop at.
TargetWorkspaces(monitor) ==
    {id \in DOMAIN workspaces :
        /\ workspaces[id].Output # Nil
        /\ Deref(workspaces[id].Output) = monitor
        /\ workspaces[id].IsActive}

\* The windows whose workspace is the target.
WindowsOn(target) ==
    {id \in DOMAIN windows :
        windows[id].WorkspaceId # Nil /\ Deref(windows[id].WorkspaceId) = target}

\* float64 values are counted in units of 1/FloatDenominator; the conversion int(f)
\* truncates toward zero.
FloatDenominator == 2
ToInt(f) == IF f >= 0 THEN f \div FloatDenominator ELSE -((-f) \div FloatDenominator)

\* The comparators handed to slices.SortFunc.
TiledCmp(a, b) ==
    LET x == Deref(a.Layout.PosInScrollingLayout).X - Deref(b.Layout.PosInScrollingLayout).X
    IN  IF x # 0 THEN x
        ELSE Deref(a.Layout.PosInScrollingLayout).Y - Deref(b.Layout.PosInScrollingLayout).Y

FloatingCmp(a, b) ==
    LET x == ToInt(Deref(a.Layout.TilePosInWorkspaceView).X)
                 - ToInt(Deref(b.Layout.TilePosInWorkspaceView).X)
    IN  IF x # 0 THEN x
        ELSE ToInt(Deref(a.Layout.TilePosInWorkspaceView).Y)
                 - ToInt(Deref(b.Layout.TilePosInWorkspaceView).Y)

TextFloatingCmp(a, b) ==
    ToInt(Deref(a.Layout.TilePosInWorkspaceView).X) - ToInt(Deref(b.Layout.TilePosInWorkspaceView).X)

\* The orders a slice of the windows ids can be in before it is sorted.
Orders(ids) ==
    {seq \in [1..Cardinality(ids) -> ids] :
        \A i, j \in 1..Cardinality(ids) : seq[i] = seq[j] => i = j}

NilScrollingPos(w) == w.Layout.PosInScrollingLayout = Nil
NilViewPos(w) == w.Layout.TilePosInWorkspaceView = Nil

\* slices.SortFunc: the comparator runs on a slice of two or more elements,
\* on every element at least once, and dereferences the position of both
\* its arguments: it panics when one of them (an id of nilPos) has none.
SortPanics(ids, nilPos) ==
    Cardinality(ids) >= 2 /\ ids \cap nilPos # {}

\* slices.SortFunc: the results of sorting the windows ids from any order,
\* notAfter the pairs of ids the comparator does not put in descending
\* order; elements that compare equal stay in the order they came in.
Sorted(ids, notAfter) ==
    {[i \in 1..Cardinality(ids) |-> windows[seq[i]]] : seq \in
        {seq \in Orders(ids) :
            \A i, j \in 1..Cardinality(ids) :
                i < j => <<seq[i], seq[j]>> \in notAfter}}

\* What Windows returned, or that it panicked.
WindowsCall(monitor, tiled, floating) ==
    [op |-> "Windows", monitor |-> monitor, panic |-> FALSE,
     tiled |-> tiled, floating |-> floating]
WindowsPanic(monitor) == [op |-> "Windows", monitor |-> monitor, panic |-> TRUE]

\* func (s *State) Windows(monitor string) (tiled, floating []*Window)
Windows(monitor) ==
    /\ ~panicked
    /\ UNCHANGED <<workspaces, windows, currentWorkspaceId, currentWindowId, needsRedraw>>
    /\ IF monitor = "" /\ currentWorkspaceId \notin DOMAIN workspaces
       THEN call' = WindowsCall(monitor, << >>, << >>) /\ UNCHANGED panicked
       ELSE IF TargetWorkspaces(ResolveMonitor(monitor)) = {}
       THEN call' = WindowsCall(monitor, << >>, << >>) /\ UNCHANGED panicked
       ELSE \E target \in TargetWorkspaces(ResolveMonitor(monitor)) :
            LET floating == {id \in WindowsOn(target) : windows[id].IsFloating}
                tiled == WindowsOn(target) \ floating
                tiledOrder == {p \in tiled \X tiled :
                                  TiledCmp(windows[p[1]], windows[p[2]]) <= 0}
                floatingOrder == {p \in floating \X floating :
                                     FloatingCmp(windows[p[1]], windows[p[2]]) <= 0}
            IN  IF \/ SortPanics(tiled, {id \in tiled : NilScrollingPos(windows[id])})
                   \/ SortPanics(floating, {id \in floating : NilViewPos(windows[id])})
                THEN call' = WindowsPanic(monitor) /\ panicked' = TRUE
                ELSE /\ \E t \in Sorted(tiled, tiledOrder),
                           f \in Sorted(floating, floatingOrder) :
                            call' = WindowsCall(monitor, t, f)
                     /\ UNCHANGED panicked

\* type Symbols
Symbols(unfocused, focused, unfocusedFloating, focusedFloating, empty) ==
    [Unfocused |-> unfocused, Focused |-> focused,
     UnfocusedFloating |-> unfocusedFloating, FocusedFloating |-> focusedFloating,
     Empty |-> empty]

urgentBegin == "<span color=\"#fb2c36\">"
urgentEnd == "</span>"

\* The loop that writes the columns i..maxColumn.
RECURSIVE TextColumns(_, _, _, _, _)
TextColumns(i, maxColumn, focusedColumn, urgentColumns, symbols) ==
    IF i > maxColumn THEN ""
    ELSE (IF i \in urgentColumns THEN urgentBegin ELSE "")
         \o (IF focusedColumn = i THEN symbols.Focused ELSE symbols.Unfocused)
         \o (IF i \in urgentColumns THEN urgentEnd ELSE "")
         \o TextColumns(i + 1, maxColumn, focusedColumn, urgentColumns, symbols)

\* The loop that writes the floating windows from index i on.
RECURSIVE TextFloating(_, _, _, _)
TextFloating(floatingWindows, i, focusedFloating, symbols) ==
    IF i > Len(floatingWindows) THEN ""
    ELSE (IF floatingWindows[i].Id = focusedFloating
          THEN symbols.FocusedFloating ELSE symbols.UnfocusedFloating)
         \o TextFloating(floatingWindows, i + 1, focusedFloating, symbols)

Max(S, default) == IF S = {} THEN default ELSE CHOOSE x \in S : \A y \in S : y <= x

\* What Text returned, or that it panicked.
TextCall(monitor, symbols, text) ==
    [op |-> "Text", monitor |-> monitor, symbols |-> symbols, panic |-> FALSE,
     text |-> text]
TextPanic(monitor, symbols) ==
    [op |-> "Text", monitor |-> monitor, symbols |-> symbols, panic |-> TRUE]

\* What Text returned after it drew: columns is what the column loop wrote,
\* floating what was written after it.
TextDrawn(monitor, symbols, columns, floating) ==
    [op |-> "Text", monitor |-> monitor, symbols |-> symbols, panic |-> FALSE,
     text |-> IF columns \o floating = "" THEN symbols.Empty ELSE columns \o floating,
     columns |-> columns, floating |-> floating]

\* func (s *State) Text(monitor string, symbols Symbols) string
Text(monitor, symbols) ==
    /\ ~panicked
    /\ UNCHANGED <<workspaces, windows, currentWorkspaceId, currentWindowId, needsRedraw>>
    /\ IF monitor = "" /\ currentWorkspaceId \notin DOMAIN workspaces
       THEN call' = TextCall(monitor, symbols, "couldn't determine monitor")
            /\ UNCHANGED panicked
       ELSE IF ResolveMonitor(monitor) = ""
       THEN call' = TextCall(monitor, symbols, "couldn't determine monitor")
            /\ UNCHANGED panicked
       ELSE IF TargetWorkspaces(ResolveMonitor(monitor)) = {}
       THEN call' = TextCall(monitor, symbols, "couldn't determine workspace")
            /\ UNCHANGED panicked
       ELSE \E target \in TargetWorkspaces(ResolveMonitor(monitor)) :
            LET inColumns == {id \in WindowsOn(target) : ~NilScrollingPos(windows[id])}
                floating == {id \in WindowsOn(target) \ inColumns : windows[id].IsFloating}
                col(id) == Deref(windows[id].Layout.PosInScrollingLayout).X
                maxColumn == Max({col(id) : id \in inColumns}, -1)
                urgentColumns == {col(id) : id \in {x \in inColumns : windows[x].IsUrgent}}
                \* the last focused window of the range sets each of these
                focusedColumns == {col(id) : id \in {x \in inColumns : windows[x].IsFocused}}
                focusedFloatings == {id \in floating : windows[id].IsFocused}
                floatingOrder == {p \in floating \X floating :
                                     TextFloatingCmp(windows[p[1]], windows[p[2]]) <= 0}
            IN  IF SortPanics(floating, {id \in floating : NilViewPos(windows[id])})
                THEN call' = TextPanic(monitor, symbols) /\ panicked' = TRUE
                ELSE /\ \E focusedColumn \in
                              (IF focusedColumns = {} THEN {-1} ELSE focusedColumns),
                           focusedFloating \in
                              (IF focusedFloatings = {} THEN {0} ELSE focusedFloatings),
                           floatingWindows \in Sorted(floating, floatingOrder) :
                        call' = TextDrawn(monitor, symbols,
                                    TextColumns(1, maxColumn, focusedColumn, urgentColumns, symbols),
                                    (IF floatingWindows # << >> /\ maxColumn > 0
                                     THEN " " ELSE "")
                                    \o TextFloating(floatingWindows, 1, focusedFloating, symbols))
                     /\ UNCHANGED panicked

----------------------------------------------------------------------------
(* The calls on the State step by step, as they run next to each other.    *)
(* A step is what a goroutine does between two points where another can    *)
(* run and make a difference: taking the lock, each write under it, its    *)
(* release, each callback.                                                 *)

\* The model after the case of the event has run on the model m.
Applied(m, event) ==
    IF event.type = "WindowOpenedOrChanged"
    THEN LET window == event.Window
             stored == Put(m.windows, window.Id, window)
             newly == window.IsFocused /\ window.Id # m.currentWindowId
         IN  [m EXCEPT !.windows = IF newly
                                   THEN Put(ClearIsFocused(stored), window.Id,
                                            [window EXCEPT !.IsFocused = TRUE])
                                   ELSE stored,
                       !.currentWindowId = IF newly THEN window.Id ELSE @]
    ELSE IF event.type = "WorkspacesChanged"
    THEN LET r == WorkspacesChangedLoop(EmptyMap, m.currentWorkspaceId, FALSE,
                                        event.Workspaces, 1)
         IN  [m EXCEPT !.workspaces = r.workspaces,
                       !.currentWorkspaceId = r.currentWorkspaceId]
    ELSE IF event.type = "WindowFocusTimestampChanged" /\ event.Id \in DOMAIN m.windows
    THEN [m EXCEPT !.windows[event.Id].FocusTimestamp = event.FocusTimestamp]
    ELSE m

\* Update is called: its dispatch is deferred, and s.mu.Lock() waits for the
\* readers to leave.
UpdateBegin(event) ==
    /\ ~panicked
    /\ pc["listen"] = "idle"
    /\ CanLock(mu)
    /\ mu' = LockWait(mu, "listen")
    /\ pc' = [pc EXCEPT !["listen"] = "Lock"]
    /\ locals' = [locals EXCEPT !["listen"] =
                     [event |-> event, callbacks |-> << >>, invoked |-> << >>]]
    /\ UNCHANGED <<workspaces, windows, currentWorkspaceId, currentWindowId,
                   needsRedraw, panicked, call, onUpdate, hist, socket, instance,
                   global>>

\* s.mu.Lock() returns, and s.needsRedraw = false is the first write.
UpdateLocked ==
    /\ pc["listen"] = "Lock"
    /\ CanEnter(mu, "listen")
    /\ mu' = Lock(mu, "listen")
    /\ needsRedraw' = FALSE
    /\ hist' = [hist EXCEPT !.before = Model,
                            !.after = Applied(Model, locals["listen"].event)]
    /\ pc' = [pc EXCEPT !["listen"] = "switch"]
    /\ UNCHANGED <<workspaces, windows, currentWorkspaceId, currentWindowId,
                   panicked, call, onUpdate, locals, socket, instance, global>>

\* A variant that returns once the window is stored.
UpdateStoreWindowAndReturn ==
    /\ pc["listen"] = "switch"
    /\ locals["listen"].event.type = "WindowOpenedOrChanged"
    /\ needsRedraw' = TRUE
    /\ windows' = Put(windows, locals["listen"].event.Window.Id,
                      locals["listen"].event.Window)
    /\ call' = UpdateCall(locals["listen"].event)
    /\ pc' = [pc EXCEPT !["listen"] = "Unlock"]
    /\ UNCHANGED <<workspaces, currentWorkspaceId, currentWindowId, panicked,
                   onUpdate, mu, locals, hist, socket, instance, global>>

\* case *WindowOpenedOrChanged, up to s.windows[window.Id] = &window.
UpdateStoreWindow ==
    /\ pc["listen"] = "switch"
    /\ locals["listen"].event.type = "WindowOpenedOrChanged"
    /\ needsRedraw' = TRUE
    /\ windows' = Put(windows, locals["listen"].event.Window.Id,
                      locals["listen"].event.Window)
    /\ call' = UpdateCall(locals["listen"].event)
    /\ pc' = [pc EXCEPT !["listen"] = "focus"]
    /\ UNCHANGED <<workspaces, currentWorkspaceId, currentWindowId, panicked,
                   onUpdate, mu, locals, hist, socket, instance, global>>

\* case *WindowOpenedOrChanged, from the test of window.IsFocused on.
UpdateFocusWindow ==
    LET window == locals["listen"].event.Window
        newly == window.IsFocused /\ window.Id # currentWindowId
    IN  /\ pc["listen"] = "focus"
        /\ windows' = IF newly
                      THEN Put(ClearIsFocused(windows), window.Id,
                               [window EXCEPT !.IsFocused = TRUE])
                      ELSE windows
        /\ currentWindowId' = IF newly THEN window.Id ELSE currentWindowId
        /\ pc' = [pc EXCEPT !["listen"] = "Unlock"]
        /\ UNCHANGED <<workspaces, currentWorkspaceId, needsRedraw, panicked, call,
                       onUpdate, mu, locals, hist, socket, instance, global>>

\* The cases that write once: the case of the sequential action, under the lock.
UpdateWorkspacesChanged ==
    /\ pc["listen"] = "switch"
    /\ locals["listen"].event.type = "WorkspacesChanged"
    /\ WorkspacesChanged(locals["listen"].event.Workspaces)
    /\ pc' = [pc EXCEPT !["listen"] = "Unlock"]
    /\ UNCHANGED <<onUpdate, mu, locals, hist, socket, instance, global>>

UpdateFocusTimestamp ==
    /\ pc["listen"] = "switch"
    /\ locals["listen"].event.type = "WindowFocusTimestampChanged"
    /\ WindowFocusTimestampChanged(locals["listen"].event.Id,
                                   locals["listen"].event.FocusTimestamp)
    /\ pc' = [pc EXCEPT !["listen"] = "Unlock"]
    /\ UNCHANGED <<onUpdate, mu, locals, hist, socket, instance, global>>

UpdateIgnored ==
    /\ pc["listen"] = "switch"
    /\ locals["listen"].event.type \in IgnoredEventTypes
    /\ IgnoredEvent(locals["listen"].event.type)
    /\ pc' = [pc EXCEPT !["listen"] = "Unlock"]
    /\ UNCHANGED <<onUpdate, mu, locals, hist, socket, instance, global>>

\* The deferred s.mu.Unlock().
UpdateUnlock ==
    /\ pc["listen"] = "Unlock"
    /\ mu' = Unlock(mu, "listen")
    /\ pc' = [pc EXCEPT !["listen"] = "RLock"]
    /\ UNCHANGED <<workspaces, windows, currentWorkspaceId, currentWindowId,
                   needsRedraw, panicked, call, onUpdate, locals, hist, socket, instance,
                   global>>


\* The callbacks a subscriber can register: notify leaves the State alone
\* (Instance.Notify), render reads it with s.Text.
Callbacks == {"notify", "render"}

\* A variant that loses the last callback of the range.
CollectedButLast(order) ==
    [i \in 1..(Len(order) - 1) |-> [id |-> order[i], f |-> onUpdate[order[i]]]]

\* The callbacks slice, appended to in the order of the range over s.onUpdate.
Collected(order) ==
    [i \in 1..Len(order) |-> [id |-> order[i], f |-> onUpdate[order[i]]]]

\* A variant that collects the callbacks and gives the read lock back before
\* it calls them.
DispatchCollectAndUnlock ==
    /\ pc["listen"] = "RLock"
    /\ CanRLock(mu)
    /\ \E order \in Orders(DOMAIN onUpdate) :
        locals' = [locals EXCEPT !["listen"].callbacks = Collected(order)]
    /\ pc' = [pc EXCEPT !["listen"] = "dispatch"]
    /\ UNCHANGED <<workspaces, windows, currentWorkspaceId, currentWindowId,
                   needsRedraw, panicked, call, onUpdate, mu, hist, socket, instance,
                   global>>

\* The deferred dispatch: s.mu.RLock() returns and the callbacks are collected.
DispatchCollect ==
    /\ pc["listen"] = "RLock"
    /\ CanRLock(mu)
    /\ mu' = RLock(mu, "listen")
    /\ \E order \in Orders(DOMAIN onUpdate) :
        locals' = [locals EXCEPT !["listen"].callbacks = Collected(order)]
    /\ pc' = [pc EXCEPT !["listen"] = "dispatch"]
    /\ UNCHANGED <<workspaces, windows, currentWorkspaceId, currentWindowId,
                   needsRedraw, panicked, call, onUpdate, hist, socket, instance,
                   global>>

\* f(s) for a callback that does not call the State.
DispatchNotify ==
    /\ pc["listen"] = "dispatch"
    /\ locals["listen"].callbacks # << >>
    /\ Head(locals["listen"].callbacks).f = "notify"
    /\ locals' = [locals EXCEPT
                     !["listen"].invoked = Append(@, Head(locals["listen"].callbacks)),
                     !["listen"].callbacks = Tail(@)]
    /\ UNCHANGED <<workspaces, windows, currentWorkspaceId, currentWindowId,
                   needsRedraw, panicked, call, onUpdate, mu, pc, hist, socket, instance,
                   global>>

\* f(s) for a callback that calls s.Text: it is invoked and reaches
\* s.mu.RLock() in Text.
DispatchRender ==
    /\ pc["listen"] = "dispatch"
    /\ locals["listen"].callbacks # << >>
    /\ Head(locals["listen"].callbacks).f = "render"
    /\ locals' = [locals EXCEPT
                     !["listen"].invoked = Append(@, Head(locals["listen"].callbacks)),
                     !["listen"].callbacks = Tail(@)]
    /\ pc' = [pc EXCEPT !["listen"] = "callback"]
    /\ UNCHANGED <<workspaces, windows, currentWorkspaceId, currentWindowId,
                   needsRedraw, panicked, call, onUpdate, mu, hist, socket, instance,
                   global>>

\* The callback's Text: its RLock returns, it reads, its RUnlock follows.
CallbackText(monitor, symbols) ==
    /\ pc["listen"] = "callback"
    /\ CanRLock(mu)
    /\ Text(monitor, symbols)
    /\ pc' = [pc EXCEPT !["listen"] = "dispatch"]
    /\ UNCHANGED <<onUpdate, mu, locals, hist, socket, instance, global>>

\* The last callback has returned: the deferred s.mu.RUnlock(), and Update
\* returns.
DispatchReturn ==
    /\ pc["listen"] = "dispatch"
    /\ locals["listen"].callbacks = << >>
    /\ mu' = RUnlock(mu, "listen")
    /\ pc' = [pc EXCEPT !["listen"] = "idle"]
    /\ UNCHANGED <<workspaces, windows, currentWorkspaceId, currentWindowId,
                   needsRedraw, panicked, call, onUpdate, locals, hist, socket, instance,
                   global>>

\* A variant of the views that does not take the lock.
RenderBeginUnlocked ==
    /\ ~panicked
    /\ pc["render"] = "idle"
    /\ pc' = [pc EXCEPT !["render"] = "view"]
    /\ mu' = RLock(mu, "render")
    /\ UNCHANGED <<workspaces, windows, currentWorkspaceId, currentWindowId,
                   needsRedraw, panicked, call, onUpdate, locals, hist, socket, instance,
                   global>>

\* Text or Windows is called on the render goroutine: s.mu.RLock() returns.
RenderBegin ==
    /\ ~panicked
    /\ pc["render"] = "idle"
    /\ CanRLock(mu)
    /\ mu' = RLock(mu, "render")
    /\ pc' = [pc EXCEPT !["render"] = "view"]
    /\ UNCHANGED <<workspaces, windows, currentWorkspaceId, currentWindowId,
                   needsRedraw, panicked, call, onUpdate, locals, hist, socket, instance,
                   global>>

\* The view reads the model and returns; the deferred s.mu.RUnlock().
RenderText(monitor, symbols) ==
    /\ pc["render"] = "view"
    /\ Text(monitor, symbols)
    /\ mu' = RUnlock(mu, "render")
    /\ pc' = [pc EXCEPT !["render"] = "idle"]
    /\ UNCHANGED <<onUpdate, locals, hist, socket, instance, global>>

RenderWindows(monitor) ==
    /\ pc["render"] = "view"
    /\ Windows(monitor)
    /\ mu' = RUnlock(mu, "render")
    /\ pc' = [pc EXCEPT !["render"] = "idle"]
    /\ UNCHANGED <<onUpdate, locals, hist, socket, instance, global>>

\* A variant that keeps the callback an id already has.
RegisterIfAbsent(m, id, f) == IF id \in DOMAIN m THEN m ELSE Put(m, id, f)

\* s.onUpdate[id] = f
Register(m, id, f) == Put(m, id, f)

\* OnUpdate or RemoveOnUpdate (f = "") is called on the init goroutine:
\* s.mu.Lock() waits for the readers to leave.
RegistryBegin(op, id, f) ==
    /\ ~panicked
    /\ pc["init"] = "idle"
    /\ CanLock(mu)
    /\ mu' = LockWait(mu, "init")
    /\ pc' = [pc EXCEPT !["init"] = "Lock"]
    /\ locals' = [locals EXCEPT !["init"] = [op |-> op, id |-> id, f |-> f]]
    /\ UNCHANGED <<workspaces, windows, currentWorkspaceId, currentWindowId,
                   needsRedraw, panicked, call, onUpdate, hist, socket, instance,
                   global>>

\* func (s *State) OnUpdate: s.mu.Lock() returns, the callback is stored,
\* the deferred s.mu.Unlock().
OnUpdate ==
    /\ pc["init"] = "Lock"
    /\ locals["init"].op = "OnUpdate"
    /\ CanEnter(mu, "init")
    /\ onUpdate' = Register(onUpdate, locals["init"].id, locals["init"].f)
    /\ mu' = Unlock(Lock(mu, "init"), "init")
    /\ hist' = [hist EXCEPT
                   !.latest = Put(@, locals["init"].id, locals["init"].f),
                   !.replaced = IF /\ locals["init"].id \in DOMAIN onUpdate
                                   /\ onUpdate[locals["init"].id] # locals["init"].f
                                THEN @ \cup {locals["init"].id}
                                ELSE @]
    /\ pc' = [pc EXCEPT !["init"] = "idle"]
    /\ UNCHANGED <<workspaces, windows, currentWorkspaceId, currentWindowId,
                   needsRedraw, panicked, call, locals, socket, instance, global>>

\* func (s *State) RemoveOnUpdate
RemoveOnUpdate ==
    /\ pc["init"] = "Lock"
    /\ locals["init"].op = "RemoveOnUpdate"
    /\ CanEnter(mu, "init")
    /\ onUpdate' = Delete(onUpdate, locals["init"].id)
    /\ mu' = Unlock(Lock(mu, "init"), "init")
    /\ hist' = [hist EXCEPT !.latest = Delete(@, locals["init"].id),
                            !.replaced = @ \ {locals["init"].id}]
    /\ pc' = [pc EXCEPT !["init"] = "idle"]
    /\ UNCHANGED <<workspaces, windows, currentWorkspaceId, currentWindowId,
                   needsRedraw, panicked, call, locals, socket, instance, global>>

----------------------------------------------------------------------------
(* listen: the loop that reads the event socket line by line and calls     *)
(* Update.  It runs in one goroutine; here no callback is registered and   *)
(* a call of Update is one step.                                           *)

\* The fields of NiriEvent after Ok, in the order of their declaration.
NiriEventFields ==
    <<"WorkspacesChanged", "WorkspaceUrgencyChanged", "WorkspaceActivated",
      "WorkspaceActiveWindowChanged", "WindowsChanged", "WindowOpenedOrChanged",
      "WindowClosed", "WindowFocusChanged", "WindowUrgencyChanged",
      "WindowLayoutsChanged", "KeyboardLayoutsChanged", "KeyboardLayoutSwitched",
      "OverviewOpenedOrClosed", "ConfigLoaded", "ScreenshotCaptured">>

FieldIndex(type) ==
    CHOOSE i \in 1..Len(NiriEventFields) : NiriEventFields[i] = type

\* A line of the stream, without its newline: the empty line, a line that
\* json.Unmarshal rejects, or a JSON object.  Of an object, what Unmarshal
\* leaves in the NiriEvent: whether Ok is set, and the events of the fields
\* that are set, one a field at most.
EmptyLine == [kind |-> "empty"]
MalformedLine == [kind |-> "malformed"]
ObjectLine(ok, fields) == [kind |-> "object", Ok |-> ok, fields |-> fields]

\* A variant that keeps the last field that is not nil.
LastField(fields) ==
    CHOOSE e \in fields :
        \A o \in fields : FieldIndex(e.type) >= FieldIndex(o.type)

\* The loop over the fields of niriEvent: the first that is not nil.
FirstField(fields) ==
    CHOOSE e \in fields :
        \A o \in fields : FieldIndex(e.type) <= FieldIndex(o.type)

\* The lines the loop leaves with continue, or with the warning that no
\* field is set.
Dropped(line) ==
    IF line.kind \in {"empty", "malformed"} THEN TRUE
    ELSE IF line.Ok THEN TRUE
    ELSE line.fields = {}

\* func (s *State) Update as one step: the case of the event's type.
Update(event) ==
    \/ event.type = "WorkspacesChanged" /\ WorkspacesChanged(event.Workspaces)
    \/ event.type = "WindowOpenedOrChanged" /\ WindowOpenedOrChanged(event.Window)
    \/ event.type = "WorkspaceActivated" /\ WorkspaceActivated(event.Id, event.Focused)
    \/ event.type = "WindowFocusChanged" /\ WindowFocusChanged(event.Id)
    \/ event.type = "WindowFocusTimestampChanged"
           /\ WindowFocusTimestampChanged(event.Id, event.FocusTimestamp)
    \/ event.type = "WindowClosed" /\ WindowClosed(event.Id)
    \/ event.type = "WindowLayoutsChanged" /\ WindowLayoutsChanged(event.Changes)
    \/ event.type = "WindowsChanged" /\ WindowsChanged(event.Windows)
    \/ event.type = "WindowUrgencyChanged"
           /\ WindowUrgencyChanged(event.Id, event.Urgent)
    \/ event.type = "WorkspaceUrgencyChanged"
           /\ WorkspaceUrgencyChanged(event.Id, event.Urgent)
    \/ event.type \in IgnoredEventTypes /\ IgnoredEvent(event.type)

\* The compositor writes a line to the socket.
Arrive(line, max) ==
    /\ ~panicked
    /\ ~socket.closed
    /\ Len(socket.arrived) < max
    /\ socket' = [socket EXCEPT !.arrived = Append(@, line)]
    /\ UNCHANGED <<workspaces, windows, currentWorkspaceId, currentWindowId,
                   needsRedraw, panicked, call, onUpdate, mu, pc, locals, hist, instance,
                   global>>

\* The compositor closes the connection.
Close ==
    /\ ~panicked
    /\ ~socket.closed
    /\ socket' = [socket EXCEPT !.closed = TRUE]
    /\ UNCHANGED <<workspaces, windows, currentWorkspaceId, currentWindowId,
                   needsRedraw, panicked, call, onUpdate, mu, pc, locals, hist, instance,
                   global>>

\* One turn of the loop for a line it leaves without a call of Update.
ListenDrop ==
    /\ ~panicked
    /\ socket.listening
    /\ socket.read < Len(socket.arrived)
    /\ Dropped(socket.arrived[socket.read + 1])
    /\ socket' = [socket EXCEPT !.read = @ + 1]
    /\ UNCHANGED <<workspaces, windows, currentWorkspaceId, currentWindowId,
                   needsRedraw, panicked, call, onUpdate, mu, pc, locals, hist, instance,
                   global>>

\* One turn of the loop for a line with a field set: state.Update(event).
\* A panic in Update is not recovered and ends the program.
ListenUpdate ==
    /\ ~panicked
    /\ socket.listening
    /\ socket.read < Len(socket.arrived)
    /\ ~Dropped(socket.arrived[socket.read + 1])
    /\ LET event == FirstField(socket.arrived[socket.read + 1].fields)
       IN  /\ Update(event)
           /\ hist' = [hist EXCEPT !.updates = Append(@, event)]
    /\ socket' = [socket EXCEPT !.read = @ + 1]
    /\ UNCHANGED <<onUpdate, mu, pc, locals, instance, global>>

\* ReadString returns io.EOF once the lines before it are read: listen
\* returns and the deferred socket.Close() runs.
ListenReturn ==
    /\ ~panicked
    /\ socket.listening
    /\ socket.closed
    /\ socket.read = Len(socket.arrived)
    /\ socket' = [socket EXCEPT !.listening = FALSE]
    /\ UNCHANGED <<workspaces, windows, currentWorkspaceId, currentWindowId,
                   needsRedraw, panicked, call, onUpdate, mu, pc, locals, hist, instance,
                   global>>

----------------------------------------------------------------------------
(* The module Instance: its config and its drawing of the windows.  The    *)
(* windows an Update draws come from State.Windows; what the Instance      *)
(* takes of them here is the tile height of each window of each column.    *)
(* Of the config the options that the drawing changes are kept.            *)

\* The id New draws at random for the Instance.
InstanceId == 1

\* math.Round of p / q for q > 0: halves go away from zero.
Round(p, q) ==
    IF p >= 0 THEN (2 * p + q) \div (2 * q)
    ELSE -((2 * (-p) + q) \div (2 * q))

Min2(a, b) == IF a <= b THEN a ELSE b
Max2(a, b) == IF a >= b THEN a ELSE b

RECURSIVE Sum(_)
Sum(seq) == IF seq = << >> THEN 0 ELSE Head(seq) + Sum(Tail(seq))

\* idx++ with the wrap to 0.
Advance(d) ==
    [d EXCEPT !.idx = IF d.idx + 1 >= Len(d.h) THEN 0 ELSE d.idx + 1]

\* A variant that drops the last window and leaves idx where it is.
DropWindowKeepIdx(d, spacing) ==
    LET rest == SubSeq(d.h, 1, Len(d.h) - 1)
    IN  [d EXCEPT !.h = rest,
                  !.rem = @ + spacing + d.h[Len(d.h)]]

\* The last window is dropped from the column.
DropWindow(d, spacing) ==
    LET rest == SubSeq(d.h, 1, Len(d.h) - 1)
    IN  [d EXCEPT !.h = rest,
                  !.rem = @ + spacing + d.h[Len(d.h)],
                  !.idx = IF d.idx >= Len(rest) THEN 0 ELSE d.idx]

\* The head of the outer loop `for remainingHeight < 0`.
EnterOuter(d) ==
    IF d.rem < 0 THEN [d EXCEPT !.inner = 0, !.loop = "inner"]
    ELSE [d EXCEPT !.loop = "grow"]

\* The end of a turn of the outer loop: it is left after 100 turns.
AfterInner(d) ==
    IF d.iter + 1 > 100 THEN [d EXCEPT !.iter = @ + 1, !.loop = "grow"]
    ELSE EnterOuter([d EXCEPT !.iter = @ + 1])

\* calculateWindowSizes returns the heights of column k.
Returned(d) ==
    [NoDraw EXCEPT !.loop = "column", !.columns = d.columns, !.k = d.k + 1,
                   !.maxHeight = d.maxHeight]

\* json.Unmarshal(sanitized, &i.config): the members the value has are
\* stored, the others keep what they had.
Decoded(config, value) ==
    [Mode |-> IF value.Mode = Nil THEN config.Mode ELSE Deref(value.Mode),
     MinimumSize |-> IF value.MinimumSize = Nil THEN config.MinimumSize
                     ELSE Deref(value.MinimumSize),
     Spacing |-> IF value.Spacing = Nil THEN config.Spacing
                 ELSE Deref(value.Spacing)]

\* minimum-size below 1 becomes 1, spacing below 0 becomes 0.
Clamped(config) ==
    [config EXCEPT !.MinimumSize = Max2(@, 1), !.Spacing = Max2(@, 0)]

\* func (i *Instance) ApplyConfig for the key "config" or "options".  With
\* value.err a member of the value does not fit its field: Unmarshal has
\* stored the members that fit, returns the error, and ApplyConfig returns
\* with it before the clamps.  It waits for i.mu while an Update draws.
ApplyConfig(value) ==
    /\ ~panicked
    /\ instance.draw.loop = "idle"
    /\ instance' = [instance EXCEPT
                       !.config = IF value.err THEN Decoded(@, value)
                                  ELSE Clamped(Decoded(@, value))]
    /\ UNCHANGED <<workspaces, windows, currentWorkspaceId, currentWindowId,
                   needsRedraw, panicked, call, onUpdate, mu, pc, locals, hist,
                   socket, global>>

\* func (i *Instance) Init: the screen is known and the Instance is ready;
\* its callback is registered with the State.  (Notify only asks the host
\* to call Update, which the host may do at any time.)
InstanceInit(screenHeight) ==
    /\ ~panicked
    /\ instance.draw.loop = "idle"
    /\ instance' = [instance EXCEPT !.screenHeight = screenHeight, !.ready = TRUE]
    /\ onUpdate' = Register(onUpdate, InstanceId, "notify")
    /\ hist' = [hist EXCEPT !.latest = Put(@, InstanceId, "notify")]
    /\ UNCHANGED <<workspaces, windows, currentWorkspaceId, currentWindowId,
                   needsRedraw, panicked, call, mu, pc, locals, socket, global>>

\* func (i *Instance) Update is called, with the height the box reports and
\* the columns State.Windows gives.  Not ready, or in text mode, it leaves
\* the config alone and returns.  Else it keeps the first height that is
\* not 0, lowers a minimum size above the height to the height, and goes
\* on to the columns.
InstanceUpdate(height, columns) ==
    /\ ~panicked
    /\ instance.draw.loop = "idle"
    /\ IF ~instance.ready \/ instance.config.Mode = TextMode
       THEN instance' = instance
       ELSE LET maxHeight == IF instance.allocatedHeight = 0 THEN height
                             ELSE instance.allocatedHeight
            IN  instance' = [instance EXCEPT
                                !.allocatedHeight = maxHeight,
                                !.config.MinimumSize =
                                    IF @ > maxHeight THEN maxHeight ELSE @,
                                !.draw = [NoDraw EXCEPT !.loop = "column",
                                                        !.columns = columns,
                                                        !.k = 1,
                                                        !.maxHeight = maxHeight]]
    /\ UNCHANGED <<workspaces, windows, currentWorkspaceId, currentWindowId,
                   needsRedraw, panicked, call, onUpdate, mu, pc, locals, hist,
                   socket, global>>

\* func (i *Instance) calculateWindowSizes is called for the next column,
\* given by the tile heights of its windows.  A column of one window gets
\* its height at once; in a longer one every window gets its share of the
\* height without the spacing, the minimum size at least, and the loops
\* start with what is left.
calculateWindowSizes ==
    LET d == instance.draw
        column == d.columns[d.k]
        total == Sum(column)
        avail == d.maxHeight - (Len(column) - 1) * instance.config.Spacing
        first == [k \in 1..Len(column) |->
                     Max2(Round(avail * column[k], total),
                          instance.config.MinimumSize)]
    IN  /\ ~panicked
        /\ d.loop = "column"
        /\ d.k <= Len(d.columns)
        /\ IF Len(column) = 1
           THEN instance' = [instance EXCEPT
                    !.windowHeights =
                        <<Min2(Round(column[1] * d.maxHeight * 10,
                                     instance.screenHeight * 9), d.maxHeight)>>,
                    !.draw = Returned(d)]
           ELSE instance' = [instance EXCEPT
                    !.draw = EnterOuter([d EXCEPT !.h = first,
                                                  !.rem = avail - Sum(first)])]
        /\ UNCHANGED <<workspaces, windows, currentWorkspaceId, currentWindowId,
                       needsRedraw, panicked, call, onUpdate, mu, pc, locals,
                       hist, socket, global>>

\* One turn of the inner loop `for remainingHeight < 0`: a window above the
\* minimum size gives a pixel, else inner counts; with inner past 50 the
\* spacing and then the minimum size of the config go down by one a turn,
\* past 100 the last window is dropped, or the loops are left when one
\* window remains.
Shrink ==
    LET d == instance.draw
        a == IF d.h[d.idx + 1] > instance.config.MinimumSize
             THEN [d EXCEPT !.h[d.idx + 1] = @ - 1, !.rem = @ + 1]
             ELSE [d EXCEPT !.inner = @ + 1]
    IN  /\ ~panicked
        /\ d.loop = "inner"
        /\ IF d.rem >= 0
           THEN instance' = [instance EXCEPT !.draw = AfterInner(d)]
           ELSE IF a.inner > 50 /\ instance.config.Spacing > 1
           THEN instance' = [instance EXCEPT !.config.Spacing = @ - 1,
                                             !.draw = Advance(a)]
           ELSE IF a.inner > 50 /\ instance.config.MinimumSize > 1
           THEN instance' = [instance EXCEPT !.config.MinimumSize = @ - 1,
                                             !.draw = Advance(a)]
           ELSE IF a.inner > 100
           THEN IF Len(a.h) = 1
                THEN instance' = [instance EXCEPT !.draw = [a EXCEPT !.loop = "grow"]]
                ELSE instance' = [instance EXCEPT
                         !.draw = AfterInner(DropWindow(a, instance.config.Spacing))]
           ELSE instance' = [instance EXCEPT !.draw = Advance(a)]
        /\ UNCHANGED <<workspaces, windows, currentWorkspaceId, currentWindowId,
                       needsRedraw, panicked, call, onUpdate, mu, pc, locals,
                       hist, socket, global>>

\* One turn of the loop `for remainingHeight > 0`: a pixel that is left goes
\* to the next window; with none left calculateWindowSizes returns.
Grow ==
    LET d == instance.draw
    IN  /\ ~panicked
        /\ d.loop = "grow"
        /\ IF d.rem > 0
           THEN instance' = [instance EXCEPT
                    !.draw = Advance([d EXCEPT !.h[d.idx + 1] = @ + 1,
                                               !.rem = @ - 1])]
           ELSE instance' = [instance EXCEPT !.windowHeights = d.h,
                                             !.draw = Returned(d)]
        /\ UNCHANGED <<workspaces, windows, currentWorkspaceId, currentWindowId,
                       needsRedraw, panicked, call, onUpdate, mu, pc, locals,
                       hist, socket, global>>

\* The columns are drawn: Update returns.
InstanceUpdateReturn ==
    /\ ~panicked
    /\ instance.draw.loop = "column"
    /\ instance.draw.k > Len(instance.draw.columns)
    /\ instance' = [instance EXCEPT !.draw = NoDraw]
    /\ UNCHANGED <<workspaces, windows, currentWorkspaceId, currentWindowId,
                   needsRedraw, panicked, call, onUpdate, mu, pc, locals, hist,
                   socket, global>>

----------------------------------------------------------------------------
(* The Instance next to the other goroutines: the host calls wbcffi_init   *)
(* and wbcffi_deinit on its main thread (the goroutine "render"), the      *)
(* realize handler starts a goroutine ("init") that calls Instance.Init,   *)
(* and listen calls Instance.Notify from the dispatch of Update.  i.mu is  *)
(* instance.mu.                                                            *)

\* A method of the plugin's State can enter: s.mu is the noopMutex, or the
\* RWMutex is free.
CanEnterGlobal ==
    \/ global.mu = noopMutex
    \/ global.lock.writer = "" /\ \A t \in Threads : global.lock.readers[t] = 0

\* wbcffi_init: global.AddInstance(i); the realize handler is connected
\* before wbcffi_init returns.
AddInstance ==
    /\ pc["render"] = "idle"
    /\ locals["render"].op = ""
    /\ CanEnterGlobal
    /\ global' = [global EXCEPT !.instances = @ \cup {InstanceId}]
    /\ locals' = [locals EXCEPT !["render"].op = "wbcffi_init"]
    /\ UNCHANGED <<workspaces, windows, currentWorkspaceId, currentWindowId,
                   needsRedraw, panicked, call, onUpdate, mu, pc, hist, socket, instance>>

\* The goroutine of the realize handler, after its sleep:
\* global.GetInstance(id) finds the instance (else the goroutine returns),
\* and i.Init is called.
RealizeGetInstance ==
    /\ pc["init"] = "idle"
    /\ locals["render"].op # ""
    /\ CanEnterGlobal
    /\ InstanceId \in global.instances
    /\ pc' = [pc EXCEPT !["init"] = "Init"]
    /\ UNCHANGED <<workspaces, windows, currentWorkspaceId, currentWindowId,
                   needsRedraw, panicked, call, onUpdate, mu, locals, hist, socket, instance, global>>

\* func (i *Instance) Init: i.mu.Lock() is called.
InitBegin ==
    /\ pc["init"] = "Init"
    /\ CanLock(instance.mu)
    /\ instance' = [instance EXCEPT !.mu = LockWait(@, "init")]
    /\ pc' = [pc EXCEPT !["init"] = "Init.Lock"]
    /\ UNCHANGED <<workspaces, windows, currentWorkspaceId, currentWindowId,
                   needsRedraw, panicked, call, onUpdate, mu, locals, hist, socket, global>>

\* i.mu.Lock() returns: the screen is stored, i.ready = true, i.mu.Unlock().
InitReady(screenHeight) ==
    /\ pc["init"] = "Init.Lock"
    /\ CanEnter(instance.mu, "init")
    /\ instance' = [instance EXCEPT !.screenHeight = screenHeight,
                                    !.ready = TRUE,
                                    !.mu = Unlock(Lock(@, "init"), "init")]
    /\ pc' = [pc EXCEPT !["init"] = "Init.Notify"]
    /\ UNCHANGED <<workspaces, windows, currentWorkspaceId, currentWindowId,
                   needsRedraw, panicked, call, onUpdate, mu, locals, hist, socket, global>>

\* i.Notify() in Init: under i.mu.RLock(), queueUpdate is called if the
\* Instance is ready.
InitNotify ==
    /\ pc["init"] = "Init.Notify"
    /\ CanRLock(instance.mu)
    /\ pc' = [pc EXCEPT !["init"] = "Init.OnUpdate"]
    /\ UNCHANGED <<workspaces, windows, currentWorkspaceId, currentWindowId,
                   needsRedraw, panicked, call, onUpdate, mu, locals, hist, socket, instance, global>>

\* i.niriState.OnUpdate(i.id, func: i.Notify()) in Init: s.mu.Lock() is
\* called; the action OnUpdate stores the callback.
InitOnUpdate ==
    /\ pc["init"] = "Init.OnUpdate"
    /\ CanLock(mu)
    /\ mu' = LockWait(mu, "init")
    /\ pc' = [pc EXCEPT !["init"] = "Lock"]
    /\ locals' = [locals EXCEPT
                     !["init"] = [op |-> "OnUpdate", id |-> InstanceId, f |-> "notify"]]
    /\ UNCHANGED <<workspaces, windows, currentWorkspaceId, currentWindowId,
                   needsRedraw, panicked, call, onUpdate, hist, socket, instance, global>>

\* wbcffi_deinit: global.GetInstance(id) finds the instance (else
\* wbcffi_deinit returns), and i.Deinit is called.
DeinitGetInstance ==
    /\ pc["render"] = "idle"
    /\ locals["render"].op = "wbcffi_init"
    /\ CanEnterGlobal
    /\ InstanceId \in global.instances
    /\ locals' = [locals EXCEPT !["render"].op = "wbcffi_deinit"]
    /\ pc' = [pc EXCEPT !["render"] = "Deinit"]
    /\ UNCHANGED <<workspaces, windows, currentWorkspaceId, currentWindowId,
                   needsRedraw, panicked, call, onUpdate, mu, hist, socket, instance, global>>

\* func (i *Instance) Deinit: i.mu.Lock() is called.
DeinitBegin ==
    /\ pc["render"] = "Deinit"
    /\ CanLock(instance.mu)
    /\ instance' = [instance EXCEPT !.mu = LockWait(@, "render")]
    /\ pc' = [pc EXCEPT !["render"] = "Deinit.Lock"]
    /\ UNCHANGED <<workspaces, windows, currentWorkspaceId, currentWindowId,
                   needsRedraw, panicked, call, onUpdate, mu, locals, hist, socket, global>>

\* i.mu.Lock() returns; Deinit goes on to i.niriState.RemoveOnUpdate.
DeinitLocked ==
    /\ pc["render"] = "Deinit.Lock"
    /\ CanEnter(instance.mu, "render")
    /\ instance' = [instance EXCEPT !.mu = Lock(@, "render")]
    /\ pc' = [pc EXCEPT !["render"] = "Deinit.RemoveOnUpdate"]
    /\ UNCHANGED <<workspaces, windows, currentWorkspaceId, currentWindowId,
                   needsRedraw, panicked, call, onUpdate, mu, locals, hist, socket, global>>

\* RemoveOnUpdate in Deinit: s.mu.Lock() is called.
DeinitRemoveBegin ==
    /\ pc["render"] = "Deinit.RemoveOnUpdate"
    /\ CanLock(mu)
    /\ mu' = LockWait(mu, "render")
    /\ pc' = [pc EXCEPT !["render"] = "Deinit.s.Lock"]
    /\ UNCHANGED <<workspaces, windows, currentWorkspaceId, currentWindowId,
                   needsRedraw, panicked, call, onUpdate, locals, hist, socket, instance, global>>

\* s.mu.Lock() returns: the callback is deleted, the deferred s.mu.Unlock().
DeinitRemove ==
    /\ pc["render"] = "Deinit.s.Lock"
    /\ CanEnter(mu, "render")
    /\ onUpdate' = Delete(onUpdate, InstanceId)
    /\ mu' = Unlock(Lock(mu, "render"), "render")
    /\ hist' = [hist EXCEPT !.latest = Delete(@, InstanceId),
                            !.replaced = @ \ {InstanceId}]
    /\ pc' = [pc EXCEPT !["render"] = "Deinit.Return"]
    /\ UNCHANGED <<workspaces, windows, currentWorkspaceId, currentWindowId,
                   needsRedraw, panicked, call, locals, socket, instance, global>>

\* i.ready = false, the deferred i.mu.Unlock(), and Deinit returns.
DeinitReturn ==
    /\ pc["render"] = "Deinit.Return"
    /\ instance' = [instance EXCEPT !.ready = FALSE,
                                    !.mu = Unlock(@, "render")]
    /\ pc' = [pc EXCEPT !["render"] = "RemoveInstance"]
    /\ UNCHANGED <<workspaces, windows, currentWorkspaceId, currentWindowId,
                   needsRedraw, panicked, call, onUpdate, mu, locals, hist, socket, global>>

\* global.RemoveInstance(id), and wbcffi_deinit returns.
RemoveInstance ==
    /\ pc["render"] = "RemoveInstance"
    /\ CanEnterGlobal
    /\ global' = [global EXCEPT !.instances = @ \ {InstanceId}]
    /\ pc' = [pc EXCEPT !["render"] = "idle"]
    /\ UNCHANGED <<workspaces, windows, currentWorkspaceId, currentWindowId,
                   needsRedraw, panicked, call, onUpdate, mu, locals, hist, socket, instance>>

\* f(s) for the callback of an Instance: it is invoked and reaches
\* i.mu.RLock() in Notify.
DispatchInstanceNotify ==
    /\ pc["listen"] = "dispatch"
    /\ locals["listen"].callbacks # << >>
    /\ Head(locals["listen"].callbacks).f = "notify"
    /\ locals' = [locals EXCEPT
                     !["listen"].invoked = Append(@, Head(locals["listen"].callbacks)),
                     !["listen"].callbacks = Tail(@)]
    /\ pc' = [pc EXCEPT !["listen"] = "Notify"]
    /\ UNCHANGED <<workspaces, windows, currentWorkspaceId, currentWindowId,
                   needsRedraw, panicked, call, onUpdate, mu, hist, socket, instance, global>>

\* func (i *Instance) Notify: i.mu.RLock() returns, queueUpdate is called
\* if the Instance is ready, the deferred i.mu.RUnlock().
Notify ==
    /\ pc["listen"] = "Notify"
    /\ CanRLock(instance.mu)
    /\ pc' = [pc EXCEPT !["listen"] = "dispatch"]
    /\ UNCHANGED <<workspaces, windows, currentWorkspaceId, currentWindowId,
                   needsRedraw, panicked, call, onUpdate, mu, locals, hist, socket, instance, global>>

----------------------------------------------------------------------------
(* The plugin's state.State step by step.  A method reads the field s.mu   *)
(* when it locks and again when it defers the unlock; Locked stores the    *)
(* noopMutex in s.mu while f runs.  locals[t].m is the mutex goroutine t   *)
(* has locked, and in Locked locals[t].saved the one it puts back.         *)

\* wbcffi_init calls global.Locked(f): s.mu.Lock() is called on the mutex
\* s.mu holds now; on the RWMutex it waits for the lock.
LockedBegin(t) ==
    /\ pc[t] = "idle"
    /\ global.mu = RWMutex => CanLock(global.lock)
    /\ global' = [global EXCEPT
                     !.lock = IF global.mu = RWMutex THEN LockWait(@, t) ELSE @]
    /\ locals' = [locals EXCEPT ![t] = [op |-> "Locked", m |-> global.mu,
                                        saved |-> global.mu]]
    /\ pc' = [pc EXCEPT ![t] = "Locked.Lock"]
    /\ UNCHANGED <<workspaces, windows, currentWorkspaceId, currentWindowId,
                   needsRedraw, panicked, call, onUpdate, mu, hist, socket, instance>>

\* s.mu.Lock() returns; mu := s.mu; s.mu = noopMutex{}; f is called.
LockedEnter(t) ==
    /\ pc[t] = "Locked.Lock"
    /\ locals[t].m = RWMutex => CanEnter(global.lock, t)
    /\ global' = [global EXCEPT
                     !.lock = IF locals[t].m = RWMutex THEN Lock(@, t) ELSE @,
                     !.mu = noopMutex]
    /\ locals' = [locals EXCEPT ![t].saved = global.mu]
    /\ pc' = [pc EXCEPT ![t] = "f"]
    /\ UNCHANGED <<workspaces, windows, currentWorkspaceId, currentWindowId,
                   needsRedraw, panicked, call, onUpdate, mu, hist, socket, instance>>

\* f in wbcffi_init: global.GetNiriState() == nil is read under the read
\* lock of the mutex s.mu holds.
GetNiriState(t) ==
    /\ pc[t] = "f"
    /\ global.mu = RWMutex => CanRLock(global.lock)
    /\ pc' = [pc EXCEPT ![t] = IF global.niriState = Nil THEN "niri.Init"
                               ELSE "Locked.Return"]
    /\ UNCHANGED <<workspaces, windows, currentWorkspaceId, currentWindowId,
                   needsRedraw, panicked, call, onUpdate, mu, locals, hist,
                   socket, instance, global>>

\* niri.Init() connects to the socket of niri.
niriInit(t) ==
    /\ pc[t] = "niri.Init"
    /\ hist' = [hist EXCEPT !.connects = @ + 1]
    /\ pc' = [pc EXCEPT ![t] = "SetNiriState"]
    /\ UNCHANGED <<workspaces, windows, currentWorkspaceId, currentWindowId,
                   needsRedraw, panicked, call, onUpdate, mu, locals, socket,
                   instance, global>>

\* global.SetNiriState(niriState) and global.SetNiriSocket(niriSocket),
\* each under the lock of the mutex s.mu holds; f returns.
SetNiriState(t) ==
    /\ pc[t] = "SetNiriState"
    /\ CanEnterGlobal
    /\ global' = [global EXCEPT !.niriState = Ptr("State"),
                                !.niriSocket = Ptr("Socket")]
    /\ pc' = [pc EXCEPT ![t] = "Locked.Return"]
    /\ UNCHANGED <<workspaces, windows, currentWorkspaceId, currentWindowId,
                   needsRedraw, panicked, call, onUpdate, mu, locals, hist,
                   socket, instance>>

\* The deferred calls of Locked: s.mu = mu, and Unlock on the mutex that
\* was locked.
LockedReturn(t) ==
    /\ pc[t] = "Locked.Return"
    /\ global' = [global EXCEPT
                     !.mu = locals[t].saved,
                     !.lock = IF locals[t].m = RWMutex THEN Unlock(@, t) ELSE @]
    /\ pc' = [pc EXCEPT ![t] = "idle"]
    /\ UNCHANGED <<workspaces, windows, currentWorkspaceId, currentWindowId,
                   needsRedraw, panicked, call, onUpdate, mu, locals, hist,
                   socket, instance>>

\* global.GetInstance(id) is called: s.mu.RLock() on the mutex s.mu holds
\* now.
GetInstanceBegin(t) ==
    /\ pc[t] = "idle"
    /\ global.mu = RWMutex => CanRLock(global.lock)
    /\ global' = [global EXCEPT
                     !.lock = IF global.mu = RWMutex THEN RLock(@, t) ELSE @]
    /\ locals' = [locals EXCEPT ![t] = [op |-> "GetInstance", m |-> global.mu,
                                        saved |-> global.mu]]
    /\ pc' = [pc EXCEPT ![t] = "GetInstance"]
    /\ UNCHANGED <<workspaces, windows, currentWorkspaceId, currentWindowId,
                   needsRedraw, panicked, call, onUpdate, mu, hist, socket, instance>>

\* GetInstance has read the map: the deferred RUnlock, and it returns.
GetInstanceReturn(t) ==
    /\ pc[t] = "GetInstance"
    /\ global' = [global EXCEPT
                     !.lock = IF locals[t].m = RWMutex THEN RUnlock(@, t) ELSE @]
    /\ pc' = [pc EXCEPT ![t] = "idle"]
    /\ UNCHANGED <<workspaces, windows, currentWorkspaceId, currentWindowId,
                   needsRedraw, panicked, call, onUpdate, mu, locals, hist,
                   socket, instance>>

----------------------------------------------------------------------------
(* The events the compositor sends.  niri keeps the guarantees stated with *)
(* the types in niri_types.go in every snapshot it sends (ids are unique,  *)
(* at most one window and one workspace are focused, at most one workspace *)
(* is active on an output); it does not keep an event from naming an id    *)
(* the model has not seen.  Snapshots list their entries by ascending id:  *)
(* with unique ids and one focused entry at most, the loops over a         *)
(* snapshot give the same result in every order.                           *)

\* Sequences of at most n elements of S.
SeqsUpTo(S, n) == UNION {[1..k -> S] : k \in 0..n}

\* The ids of a snapshot are unique, and listed in ascending order.
UniqueIds(list) ==
    \A i, j \in 1..Len(list) : i < j => list[i].Id < list[j].Id

AtMostOneFocused(list) ==
    \A i, j \in 1..Len(list) : list[i].IsFocused /\ list[j].IsFocused => i = j

AtMostOneActivePerOutput(list) ==
    \A i, j \in 1..Len(list) :
        /\ list[i].IsActive /\ list[j].IsActive
        /\ list[i].Output # Nil /\ list[i].Output = list[j].Output
        => i = j

MaxList == 2

\* The windows of the reducer's events: tiled, on workspace 1, with or
\* without a position in the scrolling layout.
ReducerLayouts ==
    {WindowLayout(pos, Nil) : pos \in {Nil, Ptr(Vec2(1, 1))}}

ReducerWindows ==
    {Window(id, Ptr(1), focused, FALSE, urgent, layout, Nil) :
        id \in WindowIds, focused \in BOOLEAN, urgent \in BOOLEAN,
        layout \in ReducerLayouts}

ReducerWindowLists ==
    {list \in SeqsUpTo(ReducerWindows, MaxList) :
        UniqueIds(list) /\ AtMostOneFocused(list)}

ReducerLayoutChanges ==
    SeqsUpTo({[Id |-> id, WindowLayout |-> layout] :
                 id \in WindowIds, layout \in ReducerLayouts}, MaxList)

\* The workspaces of the reducer's snapshots; they arrive not urgent
\* (WorkspaceUrgencyChanged raises and clears the flag), and the focused
\* workspace of a snapshot is the active one of its output.
ReducerWorkspaces ==
    {ws \in {Workspace(id, output, FALSE, active, focused) :
                id \in WorkspaceIds, output \in {Nil} \cup {Ptr(o) : o \in Outputs},
                active \in BOOLEAN, focused \in BOOLEAN} :
        ws.IsFocused => ws.IsActive}

ReducerWorkspaceLists ==
    {list \in SeqsUpTo(ReducerWorkspaces, MaxList) :
        UniqueIds(list) /\ AtMostOneFocused(list) /\ AtMostOneActivePerOutput(list)}

MaxSecs == 1
Timestamps == {[Secs |-> secs, Nanos |-> 0] : secs \in 1..MaxSecs}

\* The window events.
WindowEvents ==
    \/ \E w \in ReducerWindows : WindowOpenedOrChanged(w) /\ UNCHANGED stepVars
    \/ \E list \in ReducerWindowLists : WindowsChanged(list) /\ UNCHANGED stepVars
    \/ \E id \in {Nil} \cup {Ptr(i) : i \in WindowIds} : WindowFocusChanged(id) /\ UNCHANGED stepVars
    \/ \E id \in WindowIds : WindowClosed(id) /\ UNCHANGED stepVars
    \/ \E changes \in ReducerLayoutChanges : WindowLayoutsChanged(changes) /\ UNCHANGED stepVars
    \/ \E id \in WindowIds, urgent \in BOOLEAN : WindowUrgencyChanged(id, urgent) /\ UNCHANGED stepVars
    \/ \E id \in WindowIds, ts \in Timestamps : WindowFocusTimestampChanged(id, Ptr(ts)) /\ UNCHANGED stepVars

\* The workspace events that set and clear IsActive and IsFocused.
WorkspaceEvents ==
    \/ \E list \in ReducerWorkspaceLists : WorkspacesChanged(list) /\ UNCHANGED stepVars
    \/ \E id \in WorkspaceIds, focused \in BOOLEAN : WorkspaceActivated(id, focused) /\ UNCHANGED stepVars

\* Every event on one State, each a whole call with no other goroutine in
\* the State.  The two halves share no state, so the specifications below
\* take them apart and keep each state space small.
Next ==
    \/ WindowEvents
    \/ WorkspaceEvents
    \/ \E id \in WorkspaceIds, urgent \in BOOLEAN : WorkspaceUrgencyChanged(id, urgent) /\ UNCHANGED stepVars
    \/ \E type \in IgnoredEventTypes : IgnoredEvent(type) /\ UNCHANGED stepVars

Spec == Init /\ [][Next]_vars

\* The window half and the workspace half of the reducer on their own: no
\* event of one half reads or writes the maps of the other.
SpecWindows == Init /\ [][WindowEvents]_vars
SpecWorkspaces == Init /\ [][WorkspaceEvents]_vars

\* The window events that set and clear IsFocused, over windows that differ
\* in their flags only.
FocusWindows ==
    {Window(id, Ptr(1), focused, FALSE, urgent, WindowLayout(Ptr(Vec2(1, 1)), Nil), Nil) :
        id \in WindowIds, focused \in BOOLEAN, urgent \in BOOLEAN}

FocusWindowLists ==
    {list \in SeqsUpTo(FocusWindows, MaxList) :
        UniqueIds(list) /\ AtMostOneFocused(list)}

FocusEvents ==
    \/ \E w \in FocusWindows : WindowOpenedOrChanged(w) /\ UNCHANGED stepVars
    \/ \E list \in FocusWindowLists : WindowsChanged(list) /\ UNCHANGED stepVars
    \/ \E id \in {Nil} \cup {Ptr(i) : i \in WindowIds} : WindowFocusChanged(id) /\ UNCHANGED stepVars
    \/ \E id \in WindowIds : WindowClosed(id) /\ UNCHANGED stepVars

SpecFocus == Init /\ [][FocusEvents]_vars

\* The urgency events of both halves, over windows and workspaces that
\* differ in their urgent flag only.
UrgencyWindows ==
    {Window(id, Ptr(1), FALSE, FALSE, urgent, WindowLayout(Ptr(Vec2(1, 1)), Nil), Nil) :
        id \in WindowIds, urgent \in BOOLEAN}

UrgencyWorkspaceLists ==
    {list \in SeqsUpTo({Workspace(id, Ptr("eDP-1"), urgent, FALSE, FALSE) :
                            id \in WorkspaceIds, urgent \in BOOLEAN}, MaxList) :
        UniqueIds(list)}

UrgencyEvents ==
    \/ \E w \in UrgencyWindows : WindowOpenedOrChanged(w) /\ UNCHANGED stepVars
    \/ \E id \in WindowIds : WindowClosed(id) /\ UNCHANGED stepVars
    \/ \E id \in WindowIds, urgent \in BOOLEAN : WindowUrgencyChanged(id, urgent) /\ UNCHANGED stepVars
    \/ \E list \in UrgencyWorkspaceLists : WorkspacesChanged(list) /\ UNCHANGED stepVars
    \/ \E id \in WorkspaceIds, urgent \in BOOLEAN : WorkspaceUrgencyChanged(id, urgent) /\ UNCHANGED stepVars

SpecUrgency == Init /\ [][UrgencyEvents]_vars

\* The active window of a workspace: snapshots whose workspaces differ in
\* their ActiveWindowId only, and the event that names a new one.
WindowPointers == {Nil} \cup {Ptr(id) : id \in WindowIds}

ActiveWindowWorkspaceLists ==
    {list \in SeqsUpTo({[Workspace(id, Ptr("eDP-1"), FALSE, FALSE, FALSE)
                             EXCEPT !.ActiveWindowId = win] :
                            id \in WorkspaceIds, win \in WindowPointers}, MaxList) :
        UniqueIds(list)}

ActiveWindowEvents ==
    \/ \E list \in ActiveWindowWorkspaceLists : WorkspacesChanged(list) /\ UNCHANGED stepVars
    \/ \E id \in WorkspaceIds, win \in WindowPointers :
           WorkspaceActiveWindowChanged(id, win) /\ UNCHANGED stepVars

SpecActiveWindow == Init /\ [][ActiveWindowEvents]_vars

\* The views, over one workspace and windows that differ in where they are
\* laid out: floating or tiled, with or without each of the two positions.
ViewWorkspaceLists ==
    SeqsUpTo({Workspace(1, output, FALSE, active, focused) :
                 output \in {Nil, Ptr("eDP-1")}, active \in BOOLEAN,
                 focused \in BOOLEAN}, 1)

ViewWindows ==
    {Window(id, Ptr(1), FALSE, floating, FALSE, WindowLayout(pos, tilePos), Nil) :
        id \in WindowIds, floating \in BOOLEAN,
        pos \in {Nil} \cup {Ptr(Vec2(column, 1)) : column \in 1..MaxColumn},
        tilePos \in {Nil, Ptr(Vec2(1, 0))}}

Monitors == {""} \cup Outputs

ViewSymbols == Symbols(".", "@", "*", "#", "-")

ViewEvents ==
    \/ \E list \in ViewWorkspaceLists : WorkspacesChanged(list) /\ UNCHANGED stepVars
    \/ \E w \in ViewWindows : WindowOpenedOrChanged(w) /\ UNCHANGED stepVars
    \/ \E id \in WindowIds : WindowClosed(id) /\ UNCHANGED stepVars
    \/ \E monitor \in Monitors : Windows(monitor) /\ UNCHANGED stepVars
    \/ \E monitor \in Monitors : Text(monitor, ViewSymbols) /\ UNCHANGED stepVars

SpecViews == Init /\ [][ViewEvents]_vars

\* Every event type once more, over the small inputs of the urgency and the
\* view specifications: what each branch leaves in needsRedraw.
RedrawEvents ==
    \/ \E list \in ViewWorkspaceLists : WorkspacesChanged(list) /\ UNCHANGED stepVars
    \/ \E w \in FocusWindows : WindowOpenedOrChanged(w) /\ UNCHANGED stepVars
    \/ \E id \in WorkspaceIds, focused \in BOOLEAN : WorkspaceActivated(id, focused) /\ UNCHANGED stepVars
    \/ \E id \in WindowPointers : WindowFocusChanged(id) /\ UNCHANGED stepVars
    \/ \E id \in WindowIds, ts \in Timestamps : WindowFocusTimestampChanged(id, Ptr(ts)) /\ UNCHANGED stepVars
    \/ \E id \in WindowIds : WindowClosed(id) /\ UNCHANGED stepVars
    \/ \E id \in WindowIds : WindowLayoutsChanged(<<[Id |-> id, WindowLayout |-> WindowLayout(Ptr(Vec2(1, 1)), Nil)]>>) /\ UNCHANGED stepVars
    \/ \E list \in SeqsUpTo(FocusWindows, 1) : WindowsChanged(list) /\ UNCHANGED stepVars
    \/ \E id \in WindowIds, urgent \in BOOLEAN : WindowUrgencyChanged(id, urgent) /\ UNCHANGED stepVars
    \/ \E id \in WorkspaceIds, urgent \in BOOLEAN : WorkspaceUrgencyChanged(id, urgent) /\ UNCHANGED stepVars
    \/ \E type \in IgnoredEventTypes : IgnoredEvent(type) /\ UNCHANGED stepVars

SpecRedraw == Init /\ [][RedrawEvents]_vars

\* The narrow events, over windows that arrive focused or not, neither
\* urgent nor stamped, next to one workspace.
NarrowWindows ==
    {Window(id, Ptr(1), focused, FALSE, FALSE, WindowLayout(Ptr(Vec2(1, 1)), Nil), Nil) :
        id \in WindowIds, focused \in BOOLEAN}

NarrowLayoutChange(id) ==
    [Id |-> id, WindowLayout |-> WindowLayout(Ptr(Vec2(2, 1)), Nil)]

NarrowLayoutChanges ==
    {<<NarrowLayoutChange(id)>> : id \in WindowIds}
        \cup {<<NarrowLayoutChange(p[1]), NarrowLayoutChange(p[2])>> :
                  p \in {q \in WindowIds \X WindowIds : q[1] # q[2]}}

NarrowEvents ==
    \/ WorkspacesChanged(<<Workspace(1, Ptr("eDP-1"), FALSE, TRUE, TRUE)>>) /\ UNCHANGED stepVars
    \/ \E w \in NarrowWindows : WindowOpenedOrChanged(w) /\ UNCHANGED stepVars
    \/ \E changes \in NarrowLayoutChanges : WindowLayoutsChanged(changes) /\ UNCHANGED stepVars
    \/ \E id \in WindowIds : WindowFocusTimestampChanged(id, Ptr([Secs |-> 1, Nanos |-> 0])) /\ UNCHANGED stepVars
    \/ \E id \in WindowIds, urgent \in BOOLEAN : WindowUrgencyChanged(id, urgent) /\ UNCHANGED stepVars

SpecNarrow == Init /\ [][NarrowEvents]_vars

\* The window events but WindowsChanged, over windows that differ in their
\* flags only.
SingleWindowEvents ==
    \/ \E w \in FocusWindows : WindowOpenedOrChanged(w) /\ UNCHANGED stepVars
    \/ \E id \in WindowPointers : WindowFocusChanged(id) /\ UNCHANGED stepVars
    \/ \E id \in WindowIds : WindowClosed(id) /\ UNCHANGED stepVars
    \/ \E id \in WindowIds : WindowLayoutsChanged(<<NarrowLayoutChange(id)>>) /\ UNCHANGED stepVars
    \/ \E id \in WindowIds : WindowFocusTimestampChanged(id, Ptr([Secs |-> 1, Nanos |-> 0])) /\ UNCHANGED stepVars
    \/ \E id \in WindowIds, urgent \in BOOLEAN : WindowUrgencyChanged(id, urgent) /\ UNCHANGED stepVars

SpecSingleWindows == Init /\ [][SingleWindowEvents]_vars

\* The views where resolution decides the answer, over one workspace and
\* windows that differ in their workspace and in whether they float (a
\* floating window here has no position in the workspace view).
ResolveWindows ==
    {Window(id, Ptr(wk), FALSE, FALSE, FALSE, WindowLayout(Ptr(Vec2(1, 1)), Nil), Nil) :
        id \in WindowIds, wk \in WorkspaceIds}
    \cup {Window(id, Ptr(wk), FALSE, TRUE, FALSE, WindowLayout(Nil, Nil), Nil) :
        id \in WindowIds, wk \in WorkspaceIds}

ResolveEvents ==
    \/ \E list \in ViewWorkspaceLists : WorkspacesChanged(list) /\ UNCHANGED stepVars
    \/ \E w \in ResolveWindows : WindowOpenedOrChanged(w) /\ UNCHANGED stepVars
    \/ \E id \in WindowIds : WindowClosed(id) /\ UNCHANGED stepVars
    \/ \E monitor \in Monitors : Windows(monitor) /\ UNCHANGED stepVars
    \/ \E monitor \in Monitors : Text(monitor, ViewSymbols) /\ UNCHANGED stepVars

SpecResolve == Init /\ [][ResolveEvents]_vars

\* The views where the order decides the answer: every window has the
\* position its comparator reads, tiled windows a (column, row), floating
\* windows a position in the workspace view at 1.0 or above, whole or not.
SortWindows ==
    {Window(id, Ptr(wk), FALSE, FALSE, FALSE, WindowLayout(Ptr(Vec2(column, row)), Nil), Nil) :
        id \in WindowIds, wk \in WorkspaceIds, column \in 1..MaxColumn, row \in 1..2}
    \cup {Window(id, Ptr(wk), FALSE, TRUE, FALSE, WindowLayout(Nil, Ptr(Vec2(x, y))), Nil) :
        id \in WindowIds, wk \in WorkspaceIds,
        x \in {FloatDenominator, FloatDenominator + 1}, y \in {0, FloatDenominator}}

SortEvents ==
    \/ \E list \in ViewWorkspaceLists : WorkspacesChanged(list) /\ UNCHANGED stepVars
    \/ \E w \in SortWindows : WindowOpenedOrChanged(w) /\ UNCHANGED stepVars
    \/ \E id \in WindowIds : WindowClosed(id) /\ UNCHANGED stepVars
    \/ \E monitor \in Monitors : Windows(monitor) /\ UNCHANGED stepVars

SpecSort == Init /\ [][SortEvents]_vars

\* The text view, over one workspace and windows that differ in what Text
\* draws of them: the column and the flags of a tiled window, the focus of a
\* floating window and where (or whether) it is in the workspace view.
TextWindows ==
    {Window(id, Ptr(1), focused, FALSE, urgent, WindowLayout(Ptr(Vec2(column, 1)), Nil), Nil) :
        id \in WindowIds, focused \in BOOLEAN, urgent \in BOOLEAN, column \in 1..MaxColumn}
    \cup {Window(id, Ptr(1), focused, TRUE, FALSE, WindowLayout(Nil, tilePos), Nil) :
        id \in WindowIds, focused \in BOOLEAN,
        tilePos \in {Nil, Ptr(Vec2(FloatDenominator, 0)), Ptr(Vec2(FloatDenominator + 1, 0))}}

TextEvents ==
    \/ \E list \in ViewWorkspaceLists : WorkspacesChanged(list) /\ UNCHANGED stepVars
    \/ \E w \in TextWindows : WindowOpenedOrChanged(w) /\ UNCHANGED stepVars
    \/ \E id \in WindowIds : WindowClosed(id) /\ UNCHANGED stepVars
    \/ \E monitor \in Monitors : Text(monitor, ViewSymbols) /\ UNCHANGED stepVars

SpecText == Init /\ [][TextEvents]_vars

\* The ids callbacks are registered under (Instance.id).
MaxCallbackId == 2
CallbackIds == 1..MaxCallbackId

\* Update next to OnUpdate and RemoveOnUpdate: an event that writes twice,
\* one that returns early while its id is unknown and writes once after, and
\* one the switch ignores.
DispatchEvents ==
    {[type |-> "WindowOpenedOrChanged",
      Window |-> Window(0, Ptr(1), TRUE, FALSE, FALSE,
                        WindowLayout(Ptr(Vec2(1, 1)), Nil), Nil)],
     [type |-> "WindowFocusTimestampChanged", Id |-> 0,
      FocusTimestamp |-> Ptr([Secs |-> 1, Nanos |-> 0])],
     [type |-> "ConfigLoaded"]}

DispatchSteps ==
    \/ \E event \in DispatchEvents : UpdateBegin(event)
    \/ UpdateLocked
    \/ UpdateStoreWindow
    \/ UpdateFocusWindow
    \/ UpdateFocusTimestamp
    \/ UpdateIgnored
    \/ UpdateUnlock
    \/ DispatchCollect
    \/ DispatchNotify
    \/ DispatchRender
    \/ CallbackText("eDP-1", ViewSymbols)
    \/ DispatchReturn
    \/ \E id \in CallbackIds, f \in Callbacks : RegistryBegin("OnUpdate", id, f)
    \/ \E id \in CallbackIds : RegistryBegin("RemoveOnUpdate", id, "")
    \/ OnUpdate
    \/ RemoveOnUpdate

SpecDispatch == Init /\ [][DispatchSteps]_vars

\* Update with a callback that reads the State, over windows that take the
\* focus from each other.
SnapshotEvents ==
    {[type |-> "WindowOpenedOrChanged",
      Window |-> Window(id, Ptr(1), focused, FALSE, FALSE,
                        WindowLayout(Ptr(Vec2(1, 1)), Nil), Nil)] :
        id \in WindowIds, focused \in BOOLEAN}
    \cup {[type |-> "ConfigLoaded"]}

SnapshotSteps ==
    \/ \E event \in SnapshotEvents : UpdateBegin(event)
    \/ UpdateLocked
    \/ UpdateStoreWindow
    \/ UpdateFocusWindow
    \/ UpdateIgnored
    \/ UpdateUnlock
    \/ DispatchCollect
    \/ DispatchRender
    \/ CallbackText("eDP-1", ViewSymbols)
    \/ DispatchReturn
    \/ RegistryBegin("OnUpdate", 1, "render")
    \/ OnUpdate

SpecSnapshot == Init /\ [][SnapshotSteps]_vars

\* Update next to the views of the render goroutine, over one workspace and
\* windows that take the focus from each other.
ReaderEvents ==
    SnapshotEvents
    \cup {[type |-> "WorkspacesChanged",
           Workspaces |-> <<Workspace(1, Ptr("eDP-1"), FALSE, TRUE, TRUE)>>]}

ReaderSteps ==
    \/ \E event \in ReaderEvents : UpdateBegin(event)
    \/ UpdateLocked
    \/ UpdateStoreWindow
    \/ UpdateFocusWindow
    \/ UpdateWorkspacesChanged
    \/ UpdateIgnored
    \/ UpdateUnlock
    \/ DispatchCollect
    \/ DispatchReturn
    \/ RenderBegin
    \/ RenderText("eDP-1", ViewSymbols)
    \/ RenderWindows("eDP-1")

SpecReaders == Init /\ [][ReaderSteps]_vars

\* Every call that takes the lock of the State, each in its own goroutine:
\* Update with its callbacks, the views, OnUpdate and RemoveOnUpdate.
LockSteps ==
    \/ UpdateBegin([type |-> "ConfigLoaded"])
    \/ UpdateLocked
    \/ UpdateIgnored
    \/ UpdateUnlock
    \/ DispatchCollect
    \/ DispatchNotify
    \/ DispatchRender
    \/ CallbackText("eDP-1", ViewSymbols)
    \/ DispatchReturn
    \/ RenderBegin
    \/ RenderText("eDP-1", ViewSymbols)
    \/ RenderWindows("eDP-1")
    \/ \E id \in CallbackIds, f \in Callbacks : RegistryBegin("OnUpdate", id, f)
    \/ \E id \in CallbackIds : RegistryBegin("RemoveOnUpdate", id, "")
    \/ OnUpdate
    \/ RemoveOnUpdate

SpecLocks == Init /\ [][LockSteps]_vars

\* listen over a stream of a few lines: the lines it drops, and lines with
\* a window event, a change of layout, an event the switch ignores, and two
\* fields at once.
MaxLines == 3

ListenWindow == Window(0, Ptr(1), TRUE, FALSE, FALSE, WindowLayout(Ptr(Vec2(1, 1)), Nil), Nil)

ListenLines ==
    {EmptyLine, MalformedLine, ObjectLine(TRUE, {}), ObjectLine(FALSE, {}),
     ObjectLine(TRUE, {[type |-> "ConfigLoaded"]}),
     ObjectLine(FALSE, {[type |-> "ConfigLoaded"]}),
     ObjectLine(FALSE, {[type |-> "WindowOpenedOrChanged", Window |-> ListenWindow]}),
     ObjectLine(FALSE, {[type |-> "WindowClosed", Id |-> 0]}),
     ObjectLine(FALSE, {[type |-> "WindowLayoutsChanged",
                         Changes |-> <<[Id |-> 0,
                                        WindowLayout |-> WindowLayout(Ptr(Vec2(2, 1)), Nil)]>>]}),
     ObjectLine(FALSE, {[type |-> "WindowClosed", Id |-> 0], [type |-> "ConfigLoaded"]})}

ListenSteps ==
    \/ \E line \in ListenLines : Arrive(line, MaxLines)
    \/ Close
    \/ ListenDrop
    \/ ListenUpdate
    \/ ListenReturn

SpecListen == Init /\ [][ListenSteps]_vars

\* The Instance under ApplyConfig and Update: config values from -1 up, bar
\* heights from 0 up, and columns of one and of two windows.
MaxConfig == 2
MaxHeight == 2
ScreenHeight == 10

ConfigValues ==
    [Mode : {Nil, Ptr(TextMode), Ptr(GraphicalMode)},
     MinimumSize : {Nil} \cup {Ptr(n) : n \in -1..MaxConfig},
     Spacing : {Nil} \cup {Ptr(n) : n \in -1..MaxConfig},
     err : BOOLEAN]

ColumnLists == {<< >>, <<<<1>>>>, <<<<1, 1>>>>, <<<<1>>, <<2, 1>>>>}

InstanceSteps ==
    \/ \E value \in ConfigValues : ApplyConfig(value)
    \/ InstanceInit(ScreenHeight)
    \/ \E height \in 0..MaxHeight, columns \in ColumnLists :
           InstanceUpdate(height, columns)
    \/ calculateWindowSizes
    \/ Shrink
    \/ Grow
    \/ InstanceUpdateReturn

SpecInstance == Init /\ [][InstanceSteps]_vars

\* calculateWindowSizes over columns of one, two and three windows, with
\* every config ApplyConfig and Update can leave and bar heights from 0 up,
\* so also heights below the number of windows.  A call that has started is
\* run on by its goroutine until it returns.
SizeColumns ==
    {<<<<1>>>>, <<<<1, 1>>>>, <<<<2, 1>>>>, <<<<1, 1, 1>>>>, <<<<1>>, <<1, 2, 1>>>>}

SizeSteps ==
    \/ \E value \in ConfigValues : ApplyConfig(value)
    \/ InstanceInit(ScreenHeight)
    \/ \E height \in 0..MaxHeight, columns \in SizeColumns :
           InstanceUpdate(height, columns)
    \/ calculateWindowSizes
    \/ Shrink
    \/ Grow
    \/ InstanceUpdateReturn

SpecSizes ==
    /\ Init
    /\ [][SizeSteps]_vars
    /\ WF_vars(calculateWindowSizes)
    /\ WF_vars(Shrink)
    /\ WF_vars(Grow)
    /\ WF_vars(InstanceUpdateReturn)

\* Every case of Update that changes the model, on small inputs, next to
\* an Instance that registers its callback: windows that arrive focused,
\* one workspace, and the narrow events for window 0 and workspace 1.
FrameWindows ==
    {Window(id, Ptr(1), TRUE, FALSE, FALSE, WindowLayout(Ptr(Vec2(1, 1)), Nil), Nil) :
        id \in WindowIds}

FrameEvents ==
    \/ \E list \in {<< >>, <<Workspace(1, Ptr("eDP-1"), FALSE, TRUE, TRUE)>>} :
           WorkspacesChanged(list) /\ UNCHANGED stepVars
    \/ \E id \in WorkspaceIds : WorkspaceActivated(id, TRUE) /\ UNCHANGED stepVars
    \/ WorkspaceUrgencyChanged(1, TRUE) /\ UNCHANGED stepVars
    \/ \E w \in FrameWindows : WindowOpenedOrChanged(w) /\ UNCHANGED stepVars
    \/ \E w \in FrameWindows : WindowsChanged(<<w>>) /\ UNCHANGED stepVars
    \/ \E id \in WindowPointers : WindowFocusChanged(id) /\ UNCHANGED stepVars
    \/ \E id \in WindowIds : WindowClosed(id) /\ UNCHANGED stepVars
    \/ WindowLayoutsChanged(<<NarrowLayoutChange(0)>>) /\ UNCHANGED stepVars
    \/ WindowFocusTimestampChanged(0, Ptr([Secs |-> 1, Nanos |-> 0])) /\ UNCHANGED stepVars
    \/ WindowUrgencyChanged(0, TRUE) /\ UNCHANGED stepVars
    \/ InstanceInit(ScreenHeight)

SpecFrame == Init /\ [][FrameEvents]_vars

\* An Instance from wbcffi_init to wbcffi_deinit, with the goroutine of the
\* realize handler and the Updates of listen next to them.
DeinitSteps ==
    \/ UpdateBegin([type |-> "ConfigLoaded"])
    \/ UpdateLocked
    \/ UpdateIgnored
    \/ UpdateUnlock
    \/ DispatchCollect
    \/ DispatchInstanceNotify
    \/ Notify
    \/ DispatchReturn
    \/ AddInstance
    \/ RealizeGetInstance
    \/ InitBegin
    \/ InitReady(ScreenHeight)
    \/ InitNotify
    \/ InitOnUpdate
    \/ OnUpdate
    \/ DeinitGetInstance
    \/ DeinitBegin
    \/ DeinitLocked
    \/ DeinitRemoveBegin
    \/ DeinitRemove
    \/ DeinitReturn
    \/ RemoveInstance

SpecDeinit == Init /\ [][DeinitSteps]_vars

\* wbcffi_init called on two threads of the host, and global.GetInstance
\* called by them and by the goroutine of a realize handler.
InitCallers == {"render", "init"}

GlobalSteps ==
    \/ \E t \in InitCallers : LockedBegin(t)
    \/ \E t \in InitCallers : LockedEnter(t)
    \/ \E t \in InitCallers : GetNiriState(t)
    \/ \E t \in InitCallers : niriInit(t)
    \/ \E t \in InitCallers : SetNiriState(t)
    \/ \E t \in InitCallers : LockedReturn(t)
    \/ \E t \in InitCallers : GetInstanceBegin(t)
    \/ \E t \in InitCallers : GetInstanceReturn(t)

SpecGlobal == Init /\ [][GlobalSteps]_vars

\* WorkspaceActivated over snapshots whose workspaces arrive not active and
\* not focused: the flags come from the activations.
ActivateWorkspaceLists ==
    {list \in ReducerWorkspaceLists :
        \A i \in 1..Len(list) : ~list[i].IsActive}

ActivateEvents ==
    \/ \E list \in ActivateWorkspaceLists : WorkspacesChanged(list) /\ UNCHANGED stepVars
    \/ \E id \in WorkspaceIds, focused \in BOOLEAN : WorkspaceActivated(id, focused) /\ UNCHANGED stepVars

SpecActivate == Init /\ [][ActivateEvents]_vars

----------------------------------------------------------------------------
(* Properties of the reducer. *)

\* The most recent call was Update with an event of the given type.
Updated(type) == call.op = "Update" /\ call.event.type = type

\* The ids a snapshot or a batch lists.
ListIds(list) == {list[i].Id : i \in 1..Len(list)}

FocusedWindows == {id \in DOMAIN windows : windows[id].IsFocused}
FocusedWorkspaces == {id \in DOMAIN workspaces : workspaces[id].IsFocused}
ActiveOn(output) ==
    {id \in DOMAIN workspaces :
        workspaces[id].Output = Ptr(output) /\ workspaces[id].IsActive}

\* C1: after each Update at most one window of the model has IsFocused = true.
C1_AtMostOneFocusedWindow == Cardinality(FocusedWindows) <= 1

\* C2: after each Update, on every output at most one workspace has
\* IsActive = true.
C2_AtMostOneActivePerOutput ==
    \A output \in Outputs : Cardinality(ActiveOn(output)) <= 1

\* C2 witness: WorkspaceActivated has just activated one of two workspaces
\* that share an output.
C2_Witness ==
    /\ Updated("WorkspaceActivated")
    /\ \E a, b \in DOMAIN workspaces :
        /\ a # b
        /\ a = call.event.Id
        /\ workspaces[a].Output # Nil
        /\ workspaces[a].Output = workspaces[b].Output
        /\ workspaces[a].IsActive

\* C3: after each Update at most one workspace of the whole model has
\* IsFocused = true.
C3_AtMostOneFocusedWorkspace == Cardinality(FocusedWorkspaces) <= 1

\* C3 witness: WorkspaceActivated with Focused has just focused one of two
\* workspaces.
C3_Witness ==
    /\ Updated("WorkspaceActivated")
    /\ call.event.Focused
    /\ Cardinality(DOMAIN workspaces) >= 2
    /\ FocusedWorkspaces = {call.event.Id}

\* The event names only ids the model does not hold (for WorkspaceActivated:
\* a workspace that is absent or has no output).
NamesUnknownId(event) ==
    \/ /\ event.type \in {"WindowFocusTimestampChanged", "WindowUrgencyChanged", "WindowClosed"}
       /\ event.Id \notin DOMAIN windows
    \/ /\ event.type = "WindowLayoutsChanged"
       /\ event.Changes # << >>
       /\ ListIds(event.Changes) \cap DOMAIN windows = {}
    \/ /\ event.type = "WorkspaceUrgencyChanged"
       /\ event.Id \notin DOMAIN workspaces
    \/ /\ event.type = "WorkspaceActivated"
       /\ \/ event.Id \notin DOMAIN workspaces
          \/ workspaces[event.Id].Output = Nil

\* C4: an Update with an event that names an id absent from the model
\* returns without a panic and leaves both maps and both cursors as they were.
C4_UnknownIdIsSkipped ==
    [][(call'.op = "Update" /\ NamesUnknownId(call'.event))
        => /\ ~panicked'
           /\ UNCHANGED <<windows, workspaces, currentWindowId, currentWorkspaceId>>]_vars

\* C5: after Update(WindowsChanged(L)) the window ids of the model are
\* exactly the ids of L.
C5_WindowsChangedReplaces ==
    Updated("WindowsChanged") => DOMAIN windows = ListIds(call.event.Windows)

\* C6: after Update(WorkspacesChanged(L)) the workspace ids of the model are
\* exactly the ids of L.
C6_WorkspacesChangedReplaces ==
    Updated("WorkspacesChanged") => DOMAIN workspaces = ListIds(call.event.Workspaces)

\* C6 witness: a snapshot of one workspace has just replaced a model that
\* held the workspace the cursor still names.
C6_Witness ==
    /\ Updated("WorkspacesChanged")
    /\ Len(call.event.Workspaces) = 1
    /\ currentWorkspaceId # None
    /\ currentWorkspaceId \notin DOMAIN workspaces

\* C7: after Update(WindowFocusChanged{Id: nil}) the focused-window cursor
\* is None and no window has IsFocused = true.
C7_FocusChangedNilClears ==
    (Updated("WindowFocusChanged") /\ call.event.Id = Nil)
        => (currentWindowId = None /\ FocusedWindows = {})

\* C7 witness: WindowFocusChanged{Id: nil} has just run on a model that
\* holds windows.
C7_Witness ==
    /\ Updated("WindowFocusChanged")
    /\ call.event.Id = Nil
    /\ DOMAIN windows = WindowIds

\* C8: after Update(WindowClosed{Id: x}) x is absent from the window map,
\* and the focused-window cursor is None if it was x and unchanged otherwise.
C8_WindowClosedRemoves ==
    [][\A x \in WindowIds :
        (call'.op = "Update" /\ call'.event.type = "WindowClosed" /\ call'.event.Id = x)
            => /\ x \notin DOMAIN windows'
               /\ currentWindowId' = IF currentWindowId = x THEN None
                                     ELSE currentWindowId]_vars

\* C8 witness: WindowClosed has just closed the focused window, another
\* window remains.
C8_Witness ==
    /\ Updated("WindowClosed")
    /\ call.event.Id \notin DOMAIN windows
    /\ currentWindowId = None
    /\ FocusedWindows = {}
    /\ windows # EmptyMap

\* C9: the same WindowUrgencyChanged or WorkspaceUrgencyChanged event
\* applied a second time leaves both maps and both cursors as the first
\* application left them.
C9_UrgencyIdempotent ==
    [][(/\ call.op = "Update"
        /\ call.event.type \in {"WindowUrgencyChanged", "WorkspaceUrgencyChanged"}
        /\ call'.event.type = call.event.type
        /\ call'.event.Id = call.event.Id
        /\ call'.event.Urgent = call.event.Urgent)
        => UNCHANGED <<windows, workspaces, currentWindowId, currentWorkspaceId>>]_vars

\* C9 witness: an urgency event has just raised the flag of a window that
\* is in the model.
C9_Witness ==
    /\ Updated("WindowUrgencyChanged")
    /\ call.event.Urgent
    /\ call.event.Id \in DOMAIN windows
    /\ windows[call.event.Id].IsUrgent

\* C10: Text and Windows return without a panic in every state that Update
\* can reach.
C10_ViewsNeverPanic ==
    call.op \in {"Text", "Windows"} => ~call.panic

\* The workspaces id and x are on the same output.
SameOutput(wks, id, x) ==
    /\ wks[id].Output # Nil
    /\ wks[x].Output # Nil
    /\ Deref(wks[id].Output) = Deref(wks[x].Output)

C32_FocusedWindowIsTheCursor ==
    /\ Cardinality(FocusedWindows) <= 1
    /\ FocusedWindows \subseteq {currentWindowId}

\* C32 witness: a window has just arrived focused, every window id is in
\* the model, and the arrived window is the only focused one.
C32_Witness ==
    /\ Updated("WindowOpenedOrChanged")
    /\ call.event.Window.IsFocused
    /\ DOMAIN windows = WindowIds
    /\ FocusedWindows = {call.event.Window.Id}
    /\ currentWindowId = call.event.Window.Id
    /\ \E id \in DOMAIN windows : id # currentWindowId

\* C33: after every Update the focused-workspace cursor is either None or
\* the id of a workspace that is in the workspace map.
C33_WorkspaceCursorIsInTheMap ==
    call.op = "Update" =>
        (currentWorkspaceId = None \/ currentWorkspaceId \in DOMAIN workspaces)

\* C34: after every Update the focused-window cursor is either None or the
\* id of a window that is in the window map.
C34_WindowCursorIsInTheMap ==
    call.op = "Update" =>
        (currentWindowId = None \/ currentWindowId \in DOMAIN windows)

\* C34 witness: WindowFocusChanged has just named a window that is not in
\* the model, and the cursor names a window that is.
C34_Witness ==
    /\ Updated("WindowFocusChanged")
    /\ call.event.Id # Nil
    /\ Deref(call.event.Id) \notin DOMAIN windows
    /\ currentWindowId \in DOMAIN windows

WindowEventTypes ==
    {"WindowOpenedOrChanged", "WindowsChanged", "WindowClosed", "WindowFocusChanged",
     "WindowLayoutsChanged", "WindowFocusTimestampChanged", "WindowUrgencyChanged"}

WorkspaceEventTypes ==
    {"WorkspacesChanged", "WorkspaceActivated", "WorkspaceUrgencyChanged"}

\* C35: window events and workspace events do not touch each other's part
\* of the model: the window events leave the workspace map and the
\* focused-workspace cursor unchanged, the workspace events leave the window
\* map and the focused-window cursor unchanged; no event changes the
\* subscriber registry (it changes only in the step in which Instance.Init
\* registers the callback of an Instance that was not ready).
C35_EventsKeepToTheirHalf ==
    [][/\ (call'.op = "Update" /\ call'.event.type \in WindowEventTypes)
            => UNCHANGED <<workspaces, currentWorkspaceId>>
       /\ (call'.op = "Update" /\ call'.event.type \in WorkspaceEventTypes)
            => UNCHANGED <<windows, currentWindowId>>
       /\ onUpdate' # onUpdate => (~instance.ready /\ instance'.ready)]_vars

\* C35 witness: a workspace event has just run on a model that holds a
\* focused window, with a callback registered.
C35_Witness ==
    /\ Updated("WorkspacesChanged")
    /\ Len(call.event.Workspaces) = 1
    /\ currentWindowId \in DOMAIN windows
    /\ FocusedWindows = {currentWindowId}
    /\ InstanceId \in DOMAIN onUpdate

\* C24: after Update(WindowOpenedOrChanged{Window: w}) with w.IsFocused =
\* true, w is stored under its id with IsFocused = true and no other window
\* of the model has IsFocused = true.
C24_OpenedFocusedIsOnlyFocused ==
    (Updated("WindowOpenedOrChanged") /\ call.event.Window.IsFocused) =>
        /\ call.event.Window.Id \in DOMAIN windows
        /\ windows[call.event.Window.Id].IsFocused
        /\ FocusedWindows = {call.event.Window.Id}

\* C25: after Update(WindowFocusChanged{Id: x}) with x present, no window
\* other than x has IsFocused = true, window x has IsFocused = true if it is
\* in the map, and the focused-window cursor equals x whether or not window x
\* is in the map.
C25_FocusChangedMovesCursor ==
    (Updated("WindowFocusChanged") /\ call.event.Id # Nil) =>
        /\ FocusedWindows \subseteq {Deref(call.event.Id)}
        /\ Deref(call.event.Id) \in DOMAIN windows =>
               windows[Deref(call.event.Id)].IsFocused
        /\ currentWindowId = Deref(call.event.Id)

\* C26: after Update(WorkspaceActiveWindowChanged{WorkspaceId,
\* ActiveWindowId}) for a workspace in the model, that workspace's
\* ActiveWindowId equals the event's ActiveWindowId.
C26_ActiveWindowFollowsEvent ==
    (Updated("WorkspaceActiveWindowChanged")
        /\ call.event.WorkspaceId \in DOMAIN workspaces) =>
        workspaces[call.event.WorkspaceId].ActiveWindowId = call.event.ActiveWindowId

\* C27: when Update returns, needsRedraw is true after every event whose
\* branch completed (WorkspacesChanged, WindowOpenedOrChanged,
\* WorkspaceActivated, WindowFocusChanged, WindowFocusTimestampChanged,
\* WindowClosed, WindowLayoutsChanged, WindowsChanged, an urgency change on an
\* id that is in the model) and false after an ignored event, whatever it
\* was before the call.
C27_RedrawAfterEveryBranch ==
    (call.op = "Update" /\ ~panicked) =>
        /\ call.event.type \in {"WorkspacesChanged", "WindowOpenedOrChanged",
                                "WindowFocusChanged", "WindowClosed",
                                "WindowLayoutsChanged", "WindowsChanged"}
               => needsRedraw
        /\ (call.event.type \in {"WorkspaceActivated", "WorkspaceUrgencyChanged"}
               /\ call.event.Id \in DOMAIN workspaces) => needsRedraw
        /\ (call.event.type \in {"WindowFocusTimestampChanged", "WindowUrgencyChanged"}
               /\ call.event.Id \in DOMAIN windows) => needsRedraw
        /\ call.event.type \in IgnoredEventTypes => ~needsRedraw

\* The windows of m that differ from their records in n in no field but
\* `field`, for the ids in `named`; every other record is the same.
OnlyFieldChanged(m, n, named, field) ==
    /\ DOMAIN n = DOMAIN m
    /\ \A id \in DOMAIN m :
           IF id \in named
           THEN \A f \in DOMAIN m[id] : f # field => n[id][f] = m[id][f]
           ELSE n[id] = m[id]

\* The ids a WindowLayoutsChanged event names.
NamedWindows(changes) == {changes[i].Id : i \in 1..Len(changes)}

\* C28: a narrow event for a window that is in the model changes only its
\* own field of that window: WindowLayoutsChanged only the Layout of each
\* named window, WindowFocusTimestampChanged only the FocusTimestamp,
\* WindowUrgencyChanged only IsUrgent; every other field of that window,
\* every other window, the workspace map and both cursors are unchanged.
C28_NarrowEventsChangeOneField ==
    [][call'.op = "Update" =>
        /\ (call'.event.type = "WindowLayoutsChanged"
               /\ NamedWindows(call'.event.Changes) \subseteq DOMAIN windows) =>
               /\ OnlyFieldChanged(windows, windows',
                                   NamedWindows(call'.event.Changes), "Layout")
               /\ UNCHANGED <<workspaces, currentWorkspaceId, currentWindowId>>
        /\ (call'.event.type = "WindowFocusTimestampChanged"
               /\ call'.event.Id \in DOMAIN windows) =>
               /\ OnlyFieldChanged(windows, windows', {call'.event.Id}, "FocusTimestamp")
               /\ UNCHANGED <<workspaces, currentWorkspaceId, currentWindowId>>
        /\ (call'.event.type = "WindowUrgencyChanged"
               /\ call'.event.Id \in DOMAIN windows) =>
               /\ OnlyFieldChanged(windows, windows', {call'.event.Id}, "IsUrgent")
               /\ UNCHANGED <<workspaces, currentWorkspaceId, currentWindowId>>
      ]_vars

\* A timestamp has been stored for one of two windows, next to a workspace
\* and a focused window.
C28_Witness ==
    /\ Updated("WindowFocusTimestampChanged")
    /\ call.event.Id \in DOMAIN windows
    /\ windows[call.event.Id].FocusTimestamp = call.event.FocusTimestamp
    /\ DOMAIN windows # {call.event.Id}
    /\ currentWindowId \in DOMAIN windows \ {call.event.Id}
    /\ workspaces # EmptyMap

----------------------------------------------------------------------------
(* Properties of the read views. *)

\* The output a view is asked about: the name given, or for the empty name
\* the output of the workspace the focused-workspace cursor points at ("" when
\* it points at none, or at one without an output).
ViewOutput(monitor) ==
    IF monitor # "" THEN monitor
    ELSE IF currentWorkspaceId \in DOMAIN workspaces
            /\ workspaces[currentWorkspaceId].Output # Nil
         THEN Deref(workspaces[currentWorkspaceId].Output)
         ELSE ""

\* C11: for an output name on which no workspace is active, Windows returns
\* two empty sequences and Text one of the two fixed "couldn't determine"
\* strings; when a workspace is active there and holds no window, Text
\* returns symbols.Empty.  No view panics in these cases.
C11_ResolutionFailureGivesPlaceholder ==
    /\ (call.op = "Windows" /\ ActiveOn(ViewOutput(call.monitor)) = {})
          => (~call.panic /\ call.tiled = << >> /\ call.floating = << >>)
    /\ (call.op = "Text" /\ ActiveOn(ViewOutput(call.monitor)) = {})
          => /\ ~call.panic
             /\ call.text \in {"couldn't determine monitor", "couldn't determine workspace"}
    /\ (/\ call.op = "Text"
        /\ ActiveOn(ViewOutput(call.monitor)) # {}
        /\ \A w \in ActiveOn(ViewOutput(call.monitor)) : WindowsOn(w) = {})
          => (~call.panic /\ call.text = call.symbols.Empty)

\* C11 witness: Text was asked about an output whose only workspace is not
\* active and holds a window, and answered "couldn't determine workspace".
C11_Witness ==
    /\ call.op = "Text"
    /\ call.monitor \in Outputs
    /\ \E w \in DOMAIN workspaces :
        /\ workspaces[w].Output = Ptr(call.monitor)
        /\ ~workspaces[w].IsActive
        /\ WindowsOn(w) # {}
    /\ ~call.panic
    /\ call.text = "couldn't determine workspace"

\* (x, y) pairs in ascending order: by x first, by y where x is equal.
LexLeq(a, b) == a.X < b.X \/ (a.X = b.X /\ a.Y <= b.Y)

\* A result lists exactly the windows of ids, each once and as the model
\* holds it.
ListsExactly(result, ids) ==
    /\ Len(result) = Cardinality(ids)
    /\ {result[i].Id : i \in 1..Len(result)} = ids
    /\ \A i \in 1..Len(result) : result[i] = windows[result[i].Id]

\* C12: for an output on which a workspace W is active, Windows returns
\* exactly the windows of W, those with IsFloating in the floating result and
\* the others in the tiled result, the tiled result in ascending (column,
\* row) order and the floating result in ascending (x, y) order of the
\* position in the workspace view.
C12_WindowsPartitionSorted ==
    (call.op = "Windows" /\ ActiveOn(ViewOutput(call.monitor)) # {})
        => /\ ~call.panic
           /\ \E w \in ActiveOn(ViewOutput(call.monitor)) :
                /\ ListsExactly(call.floating,
                                {id \in WindowsOn(w) : windows[id].IsFloating})
                /\ ListsExactly(call.tiled,
                                {id \in WindowsOn(w) : ~windows[id].IsFloating})
           /\ \A i, j \in 1..Len(call.tiled) :
                i < j => LexLeq(Deref(call.tiled[i].Layout.PosInScrollingLayout),
                                Deref(call.tiled[j].Layout.PosInScrollingLayout))
           /\ \A i, j \in 1..Len(call.floating) :
                i < j => LexLeq(Deref(call.floating[i].Layout.TilePosInWorkspaceView),
                                Deref(call.floating[j].Layout.TilePosInWorkspaceView))

\* The windows of workspace w that are in column i of the scrolling layout.
InColumn(w, i) ==
    {id \in WindowsOn(w) :
        /\ windows[id].Layout.PosInScrollingLayout # Nil
        /\ Deref(windows[id].Layout.PosInScrollingLayout).X = i}

\* The highest column of workspace w that holds a window (0: none does).
MaxObservedColumn(w) ==
    Max({Deref(windows[id].Layout.PosInScrollingLayout).X :
            id \in {x \in WindowsOn(w) : windows[x].Layout.PosInScrollingLayout # Nil}}, 0)

\* One symbol for each occupied column from i on, in ascending order.
RECURSIVE OccupiedColumns(_, _, _)
OccupiedColumns(w, i, symbols) ==
    IF i > MaxObservedColumn(w) THEN ""
    ELSE (IF InColumn(w, i) = {} THEN ""
          ELSE LET urgent == \E id \in InColumn(w, i) : windows[id].IsUrgent
                   focused == \E id \in InColumn(w, i) : windows[id].IsFocused
               IN  (IF urgent THEN urgentBegin ELSE "")
                   \o (IF focused THEN symbols.Focused ELSE symbols.Unfocused)
                   \o (IF urgent THEN urgentEnd ELSE ""))
         \o OccupiedColumns(w, i + 1, symbols)

\* C13: when resolution succeeds, the column part of Text's result is one
\* symbol for each occupied column from 1 to the highest, in ascending
\* order: symbols.Focused for the column of the focused window and
\* symbols.Unfocused for the others, inside the urgent marker exactly when
\* the column holds an urgent window.
C13_OneSymbolPerOccupiedColumn ==
    (call.op = "Text" /\ ActiveOn(ViewOutput(call.monitor)) # {})
        => /\ ~call.panic
           /\ \E w \in ActiveOn(ViewOutput(call.monitor)) :
                call.columns = OccupiedColumns(w, 1, call.symbols)

\* The floating windows of workspace w.
FloatingOn(w) == {id \in WindowsOn(w) : windows[id].IsFloating}

\* The orders that list the windows ids from left to right: ascending in the
\* x of their position in the workspace view, where both have one.
LeftToRight(ids) ==
    {seq \in Orders(ids) :
        \A i, j \in 1..Cardinality(ids) :
            (/\ i < j
             /\ ~NilViewPos(windows[seq[i]])
             /\ ~NilViewPos(windows[seq[j]]))
            => Deref(windows[seq[i]].Layout.TilePosInWorkspaceView).X
                   <= Deref(windows[seq[j]].Layout.TilePosInWorkspaceView).X}

\* One symbol for each window of seq from index i on: the focused-floating
\* symbol for a focused window, the unfocused-floating one for the others.
RECURSIVE FloatingSymbols(_, _, _)
FloatingSymbols(seq, i, symbols) ==
    IF i > Len(seq) THEN ""
    ELSE (IF windows[seq[i]].IsFocused
          THEN symbols.FocusedFloating ELSE symbols.UnfocusedFloating)
         \o FloatingSymbols(seq, i + 1, symbols)

\* C14: when resolution succeeds and the target workspace holds a floating
\* window, Text's result is the column part, one space, and one symbol for
\* each floating window from left to right; when it holds none, nothing
\* follows the column part (symbols.Empty stands for an empty result).
C14_SpaceThenFloatingSymbols ==
    (call.op = "Text" /\ ActiveOn(ViewOutput(call.monitor)) # {})
        => /\ ~call.panic
           /\ call.text \in {call.columns \o call.floating, call.symbols.Empty}
           /\ \E w \in ActiveOn(ViewOutput(call.monitor)) :
                IF FloatingOn(w) = {} THEN call.floating = ""
                ELSE \E seq \in LeftToRight(FloatingOn(w)) :
                        call.floating = " " \o FloatingSymbols(seq, 1, call.symbols)

\* The floating windows of workspace w that Text draws after the columns:
\* those with no position in the scrolling layout.
DrawnFloatingOn(w) == {id \in FloatingOn(w) : NilScrollingPos(windows[id])}

\* C30: in Text's result a floating window is drawn with
\* symbols.FocusedFloating only if it has IsFocused = true, whatever its id,
\* 0 included; a floating window with IsFocused = false is drawn with
\* symbols.UnfocusedFloating.  In some order of the floating windows, what
\* follows the columns (and the space) is the symbol of each by its flag.
C30_FloatingSymbolFollowsFocus ==
    (call.op = "Text" /\ ActiveOn(ViewOutput(call.monitor)) # {} /\ ~call.panic)
        => \E w \in ActiveOn(ViewOutput(call.monitor)) :
               \E seq \in Orders(DrawnFloatingOn(w)) :
                   call.floating \in {FloatingSymbols(seq, 1, call.symbols),
                                      " " \o FloatingSymbols(seq, 1, call.symbols)}

\* C29: Text and Windows are deterministic functions of the reducer state
\* and their arguments: a view called twice on the same state with the same
\* output name and symbol set returns the same string and the same two
\* ordered sequences, whatever the order of the range over the maps and
\* however the sort orders windows that compare equal.  (No view changes
\* the state, so two calls in a row read the same state.)
C29_ViewsAreDeterministic ==
    [][(/\ call.op \in {"Windows", "Text"}
        /\ call'.op = call.op
        /\ call'.monitor = call.monitor
        /\ call.op = "Text" => call'.symbols = call.symbols
        /\ ~call.panic /\ ~call'.panic) => call' = call]_vars

----------------------------------------------------------------------------
(* Properties of the calls next to each other. *)

\* The step in which the listen goroutine invokes a callback.
Invokes == locals'["listen"].invoked # locals["listen"].invoked

\* The step in which Update returns.
UpdateReturns == pc["listen"] = "dispatch" /\ pc'["listen"] = "idle"

\* The callbacks registered: one [id, f] for each id of the map m.
Registered(m) == {[id |-> id, f |-> m[id]] : id \in DOMAIN m}

\* The entries of a sequence, and that none is there twice.
Entries(seq) == {seq[i] : i \in 1..Len(seq)}
EachOnce(seq) == \A i, j \in 1..Len(seq) : seq[i] = seq[j] => i = j

\* C15: every callback Update invokes is invoked after the mutation of that
\* call is complete and its exclusive lock is released, and when Update
\* returns it has invoked each callback registered at dispatch time exactly
\* once; for every event, ignored and returning early included.
C15_EveryCallbackOncePerUpdate ==
    [][/\ Invokes => (mu.writer # "listen" /\ ~mu.locked /\ Model = hist.after)
       /\ UpdateReturns =>
            /\ Entries(locals["listen"].invoked) = Registered(onUpdate)
            /\ EachOnce(locals["listen"].invoked)]_vars

\* C15 witness: an Update with an event the switch ignores has returned
\* after it invoked the callbacks of two ids.
C15_Witness ==
    /\ pc["listen"] = "idle"
    /\ locals["listen"].event.type = "ConfigLoaded"
    /\ Len(locals["listen"].invoked) = 2

\* C16: while a callback runs for an event, the model it can read is the
\* model the earlier events left with this event applied to it, whole.
C16_CallbackReadsStateAfterEvent ==
    pc["listen"] \in {"dispatch", "callback"} => Model = hist.after

\* C16 witness: the callback has read the State after an event that took
\* the focus from one window and gave it to another.
C16_Witness ==
    /\ pc["listen"] = "dispatch"
    /\ call.op = "Text"
    /\ locals["listen"].event.type = "WindowOpenedOrChanged"
    /\ locals["listen"].event.Window.IsFocused
    /\ Cardinality(DOMAIN windows) = 2
    /\ FocusedWindows = {locals["listen"].event.Window.Id}
    /\ hist.before.currentWindowId \notin {None, locals["listen"].event.Window.Id}

\* The step in which a view of the render goroutine reads the model.
ViewReads == pc["render"] = "view" /\ pc'["render"] = "idle"

\* C17: a Text or Windows call that runs next to an Update reads the whole
\* model as it was before that Update or the whole model as it is after,
\* never a model that has some of the writes of the Update only.
C17_ViewsReadWholeStates ==
    [][ViewReads => Model \in {hist.before, hist.after}]_vars

\* C17 witness: Text has drawn a window while an Update that will change
\* the model was waiting for the lock.
C17_Witness ==
    /\ pc["render"] = "idle"
    /\ call.op = "Text"
    /\ call.text = ViewSymbols.Focused
    /\ pc["listen"] = "Lock"
    /\ Applied(Model, locals["listen"].event) # Model

\* A call on the State has been made and has not returned.
InCall(t) == pc[t] # "idle"

\* C18: no call on the State blocks for ever: while some goroutine is inside
\* Update, OnUpdate, RemoveOnUpdate, Text or Windows, some goroutine can take
\* its next step, also when a callback calls Text while another goroutine
\* waits in OnUpdate or RemoveOnUpdate for the lock.
C18_NoCallBlocksForever ==
    (\E t \in Threads : InCall(t)) => ENABLED LockSteps

\* The step in which OnUpdate or RemoveOnUpdate stores and returns.
RegistryReturns == pc["init"] = "Lock" /\ pc'["init"] = "idle"

\* The entries of m under the ids other than id.
Others(m, id) == [j \in DOMAIN m \ {id} |-> m[j]]

\* C19: registration is keyed.  An Update invokes, for every id, the
\* callback the latest OnUpdate of that id gave and no other, once; OnUpdate
\* leaves the callbacks of the other ids as they are; RemoveOnUpdate of an
\* id that has no callback changes nothing.
C19_RegistrationIsKeyed ==
    [][/\ UpdateReturns =>
            /\ Entries(locals["listen"].invoked) = Registered(hist.latest)
            /\ EachOnce(locals["listen"].invoked)
       /\ RegistryReturns =>
            /\ Others(onUpdate', locals["init"].id) = Others(onUpdate, locals["init"].id)
            /\ locals["init"].op = "OnUpdate" =>
                   /\ locals["init"].id \in DOMAIN onUpdate'
                   /\ onUpdate'[locals["init"].id] = locals["init"].f
            /\ (locals["init"].op = "RemoveOnUpdate"
                    /\ locals["init"].id \notin DOMAIN onUpdate) =>
                   onUpdate' = onUpdate]_vars

\* C19 witness: id 1 had another callback, OnUpdate replaced it, and the
\* Update in progress has invoked the new one while id 2 kept its own.
C19_Witness ==
    /\ pc["listen"] = "dispatch"
    /\ 1 \in hist.replaced
    /\ DOMAIN onUpdate = {1, 2}
    /\ onUpdate[1] = "render"
    /\ onUpdate[2] = "notify"
    /\ locals["listen"].callbacks = << >>
    /\ Len(locals["listen"].invoked) = 2
    /\ \E i \in 1..2 : locals["listen"].invoked[i] = [id |-> 1, f |-> "render"]

\* C36: once RemoveOnUpdate(id) has returned, the callback that was
\* registered under id is never invoked again, also when RemoveOnUpdate runs
\* next to an Update that is collecting or dispatching callbacks: every
\* callback the dispatch invokes is the one its id is registered with at
\* that moment (hist.latest holds the registrations not removed since).
C36_RemovedCallbackIsNotInvoked ==
    [][Len(locals'["listen"].invoked) > Len(locals["listen"].invoked) =>
        LET e == locals'["listen"].invoked[Len(locals'["listen"].invoked)]
        IN  /\ e.id \in DOMAIN hist.latest
            /\ hist.latest[e.id] = e.f]_vars

\* C36 witness: RemoveOnUpdate(id) has returned, id is not registered, and
\* the dispatch of an Update is invoking the callbacks of the other ids.
C36_Witness ==
    /\ pc["init"] = "idle"
    /\ locals["init"].op = "RemoveOnUpdate"
    /\ locals["init"].id \notin DOMAIN onUpdate
    /\ pc["listen"] = "dispatch"
    /\ locals["listen"].invoked # << >>
    /\ \A i \in 1..Len(locals["listen"].invoked) :
           locals["listen"].invoked[i].id # locals["init"].id

----------------------------------------------------------------------------
(* Properties of listen. *)

\* A line decodes to an event: it is a JSON object that is not the reply
\* to the request and that sets a field.
DecodesToEvent(line) ==
    line.kind = "object" /\ ~line.Ok /\ line.fields # {}

\* The events of the lines that decode to one, in the order of the lines.
RECURSIVE EventsOf(_)
EventsOf(lines) ==
    IF lines = << >> THEN << >>
    ELSE (IF DecodesToEvent(Head(lines))
          THEN <<FirstField(Head(lines).fields)>> ELSE << >>)
         \o EventsOf(Tail(lines))

\* C20: listen calls Update once for each line that decodes to an event, in
\* the order of the lines, and for no other line; and no line stops the
\* loop: while a line that has arrived is unread, listen can read it.
C20_OneUpdatePerEventLine ==
    /\ hist.updates = EventsOf(SubSeq(socket.arrived, 1, socket.read))
    /\ socket.read < Len(socket.arrived) => ENABLED (ListenDrop \/ ListenUpdate)

\* The step in which listen has read the next line, and that line.
ListenReads == socket'.read = socket.read + 1
NextLine == socket.arrived[socket.read + 1]

\* C21: for a decoded line with more than one field set, listen calls Update
\* once, with the field that comes first in the declaration of NiriEvent;
\* for a decoded line with no field set it calls Update not at all and goes
\* on reading.
C21_FirstPopulatedFieldWins ==
    [][(ListenReads /\ NextLine.kind = "object" /\ ~NextLine.Ok) =>
          /\ Cardinality(NextLine.fields) > 1 =>
                 \E e \in NextLine.fields :
                     /\ \A o \in NextLine.fields :
                            FieldIndex(e.type) <= FieldIndex(o.type)
                     /\ hist'.updates = Append(hist.updates, e)
                     /\ call'.op = "Update"
                     /\ call'.event.type = e.type
          /\ NextLine.fields = {} =>
                 /\ hist'.updates = hist.updates
                 /\ call' = call
                 /\ socket'.listening
                 /\ ~panicked']_vars

\* C21 witness: listen has read a line that sets WindowClosed and
\* ConfigLoaded and has called Update with the WindowClosed.
C21_Witness ==
    /\ socket.read >= 1
    /\ socket.arrived[socket.read].kind = "object"
    /\ Cardinality(socket.arrived[socket.read].fields) = 2
    /\ ~socket.arrived[socket.read].Ok
    /\ call.op = "Update"
    /\ call.event.type = "WindowClosed"
    /\ hist.updates[Len(hist.updates)].type = "WindowClosed"

----------------------------------------------------------------------------
(* Properties of the Instance. *)

\* C22: whatever ApplyConfig and Update calls have been made, with whatever
\* bar height, the minimum size of the config is 1 at least and its spacing
\* 0 at least.
C22_ConfigStaysInRange ==
    instance.config.MinimumSize >= 1 /\ instance.config.Spacing >= 0

\* calculateWindowSizes is in its loops on a column of two or more windows.
InLoops == instance.draw.loop \in {"inner", "grow"}

\* calculateWindowSizes returns on this step.
SizesReturn ==
    /\ instance.draw.loop \in {"column", "inner", "grow"}
    /\ instance'.draw.loop = "column"
    /\ instance'.draw.k = instance.draw.k + 1

\* C39: calculateWindowSizes terminates normally for every column of one or
\* more windows, every bar height (0 and heights below the number of
\* windows too) and every minimum size and spacing: while it is in its
\* loops idx is an index of windowHeights, which holds one height at least
\* and no more than the column has windows, and the loop counters stay
\* within their caps; it returns between 1 and n heights; and every call
\* that is in its loops returns.
C39_CalculateWindowSizesTerminates ==
    /\ [](InLoops =>
            /\ instance.draw.idx \in 0..(Len(instance.draw.h) - 1)
            /\ Len(instance.draw.h) \in
                   1..Len(instance.draw.columns[instance.draw.k])
            /\ instance.draw.inner <= 101
            /\ instance.draw.iter <= 101)
    /\ [][SizesReturn =>
            Len(instance'.windowHeights) \in
                1..Len(instance.draw.columns[instance.draw.k])]_vars
    /\ (InLoops ~> instance.draw.loop = "column")

\* C39 witness: calculateWindowSizes has returned fewer heights than the
\* column has windows, on a bar lower than the number of windows.
C39_Witness ==
    /\ instance.draw.loop = "column"
    /\ instance.draw.k > 1
    /\ Len(instance.draw.columns[instance.draw.k - 1]) > instance.draw.maxHeight
    /\ Len(instance.windowHeights) \in
           1..(Len(instance.draw.columns[instance.draw.k - 1]) - 1)

\* C37: Instance.Deinit next to State.Update always completes: in no
\* reachable state Deinit holds i.mu and waits in RemoveOnUpdate for s.mu
\* while the dispatch of Update holds the read lock of s.mu and waits in
\* Instance.Notify for i.mu.
C37_DeinitAndUpdateDoNotDeadlock ==
    ~ /\ pc["render"] \in {"Deinit.RemoveOnUpdate", "Deinit.s.Lock"}
      /\ instance.mu.locked
      /\ instance.mu.writer = "render"
      /\ pc["listen"] = "Notify"
      /\ mu.readers["listen"] > 0

\* wbcffi_deinit has returned.
DeinitReturned == locals["render"].op = "wbcffi_deinit" /\ pc["render"] = "idle"

\* A step on which Notify calls queueUpdate.
QueueUpdate ==
    /\ instance.ready
    /\ \/ pc["init"] = "Init.Notify" /\ pc'["init"] # "Init.Notify"
       \/ pc["listen"] = "Notify" /\ pc'["listen"] # "Notify"

\* C38: after wbcffi_deinit(id) has returned, no callback is registered
\* under id in the reducer, the Instance is not ready, and queueUpdate of
\* the Instance is not called again, for every interleaving of wbcffi_deinit
\* with the goroutine of the realize handler.
C38_NothingLeftAfterDeinit ==
    [][DeinitReturned =>
        /\ InstanceId \notin DOMAIN onUpdate
        /\ ~instance.ready
        /\ ~QueueUpdate]_vars

\* Goroutine t is executing f inside Locked.
InF(t) == pc[t] \in {"f", "niri.Init", "SetNiriState", "Locked.Return"}

\* Goroutine t is inside the critical section of a method of the State.
InCriticalSection(t) == InF(t) \/ pc[t] = "GetInstance"

\* C40: while state.State.Locked(f) is executing f, no other thread is
\* inside the critical section of a method of the State, so wbcffi_init
\* called on several threads connects to niri once at most.
C40_LockedExcludesOthers ==
    /\ \A t \in InitCallers : \A u \in InitCallers \ {t} :
           InF(t) => ~InCriticalSection(u)
    /\ hist.connects <= 1

----------------------------------------------------------------------------
(* jsonc.Sanitize: the comments of the config are removed before it is     *)
(* decoded.  bytes.Map hands the runes of the data to the closure of       *)
(* sanitize one by one; `call` holds the runes handed over so far, the     *)
(* state of the closure and what has been written.  "a" stands for every   *)
(* rune the switch has no case for.                                        *)

MaxData == 6
Runes == {"a", "\n", "\\", "\"", "/", "*"}

\* The closure of sanitize on the rune r in the state `state`: the state it
\* leaves and whether it returned r (keep) or -1.
sanitize(state, r) ==
    LET stateCheckNext == "checkNext" \in state
        st == state \ {"checkNext"}
        inComment(x) == x \cap {"isCommentLine", "isCommentBlock"} # {}
        write(x) == [state |-> x, keep |-> ~inComment(x)]
        skip(x) == [state |-> x, keep |-> FALSE]
    IN  IF r = "\n" THEN write(st \ {"isCommentLine"})
        ELSE IF r = "\\"
        THEN write(IF "isString" \in st THEN st \cup {"checkNext"} ELSE st)
        ELSE IF r = "\""
        THEN IF "isString" \in st
             THEN (IF stateCheckNext THEN write(st) ELSE write(st \ {"isString"}))
             ELSE IF ~inComment(st) THEN write(st \cup {"isString"})
             ELSE write(st)
        ELSE IF r = "/"
        THEN IF "isString" \in st THEN write(st)
             ELSE IF "isCommentBlock" \in st
             THEN (IF stateCheckNext THEN skip(st \ {"isCommentBlock"})
                   ELSE skip(st \cup {"isCommentLine"}))
             ELSE (IF stateCheckNext THEN skip(st \cup {"isCommentLine"})
                   ELSE skip(st \cup {"checkNext"}))
        ELSE IF r = "*"
        THEN IF "isString" \in st THEN write(st)
             ELSE IF stateCheckNext THEN skip(st \cup {"isCommentBlock"})
             ELSE IF "isCommentBlock" \in st THEN skip(st \cup {"checkNext"})
             ELSE skip(st)
        ELSE write(st)

\* Sanitize is called on valid UTF-8: var state state, nothing written yet.
Sanitize ==
    /\ ~panicked
    /\ call' = [op |-> "Sanitize", data |-> << >>, state |-> {}, out |-> << >>]
    /\ UNCHANGED <<workspaces, windows, currentWorkspaceId, currentWindowId,
                   needsRedraw, panicked>>

\* bytes.Map calls the closure on the next rune of the data.
SanitizeRune(r) ==
    /\ ~panicked
    /\ call.op = "Sanitize"
    /\ Len(call.data) < MaxData
    /\ LET next == sanitize(call.state, r)
       IN  call' = [call EXCEPT !.data = Append(@, r),
                                !.state = next.state,
                                !.out = IF next.keep THEN Append(@, r) ELSE @]
    /\ UNCHANGED <<workspaces, windows, currentWorkspaceId, currentWindowId,
                   needsRedraw, panicked>>

SanitizeSteps ==
    \/ Sanitize /\ UNCHANGED stepVars
    \/ \E r \in Runes : SanitizeRune(r) /\ UNCHANGED stepVars

SpecSanitize == Init /\ [][SanitizeSteps]_vars

----------------------------------------------------------------------------
(* Properties of jsonc.Sanitize. *)

\* JSONC read rune by rune from index i on in the mode `mode` ("code",
\* "string", "escape", "line", "block"): the mode at the end of the data, or
\* "bad" where the data is no JSONC (a rune of a comment opener or a
\* backslash outside a string and outside a comment, a raw newline or an
\* unknown escape in a string).
RECURSIVE Lexed(_, _, _)
Lexed(data, i, mode) ==
    IF i > Len(data) THEN mode
    ELSE LET r == data[i]
             next == IF i < Len(data) THEN data[i + 1] ELSE ""
         IN  IF mode = "code"
             THEN IF r = "/" /\ next = "/" THEN Lexed(data, i + 2, "line")
                  ELSE IF r = "/" /\ next = "*" THEN Lexed(data, i + 2, "block")
                  ELSE IF r \in {"/", "*", "\\"} THEN "bad"
                  ELSE IF r = "\"" THEN Lexed(data, i + 1, "string")
                  ELSE Lexed(data, i + 1, "code")
             ELSE IF mode = "string"
             THEN IF r = "\\" THEN Lexed(data, i + 1, "escape")
                  ELSE IF r = "\"" THEN Lexed(data, i + 1, "code")
                  ELSE IF r = "\n" THEN "bad"
                  ELSE Lexed(data, i + 1, "string")
             ELSE IF mode = "escape"
             THEN IF r \in {"\"", "\\", "/", "a"} THEN Lexed(data, i + 1, "string")
                  ELSE "bad"
             ELSE IF mode = "line"
             THEN Lexed(data, i + 1, IF r = "\n" THEN "code" ELSE "line")
             ELSE IF r = "*" /\ next = "/" THEN Lexed(data, i + 2, "code")
                  ELSE Lexed(data, i + 1, "block")

\* The data is JSONC: every string and every block comment is closed.
Jsonc(data) == Lexed(data, 1, "code") \in {"code", "line"}

\* The data with exactly its comments removed: the runes from // up to the
\* end of the line and from /* to */, where the opener is outside a string.
RECURSIVE Uncommented(_, _, _)
Uncommented(data, i, mode) ==
    IF i > Len(data) THEN << >>
    ELSE LET r == data[i]
             next == IF i < Len(data) THEN data[i + 1] ELSE ""
         IN  IF mode = "code"
             THEN IF r = "/" /\ next = "/" THEN Uncommented(data, i + 2, "line")
                  ELSE IF r = "/" /\ next = "*" THEN Uncommented(data, i + 2, "block")
                  ELSE <<r>> \o Uncommented(data, i + 1,
                                            IF r = "\"" THEN "string" ELSE "code")
             ELSE IF mode = "string"
             THEN <<r>> \o Uncommented(data, i + 1,
                               IF r = "\\" THEN "escape"
                               ELSE IF r = "\"" THEN "code" ELSE "string")
             ELSE IF mode = "escape"
             THEN <<r>> \o Uncommented(data, i + 1, "string")
             ELSE IF mode = "line"
             THEN IF r = "\n" THEN <<r>> \o Uncommented(data, i + 1, "code")
                  ELSE Uncommented(data, i + 1, "line")
             ELSE IF r = "*" /\ next = "/" THEN Uncommented(data, i + 2, "code")
                  ELSE Uncommented(data, i + 1, "block")

\* C31: for valid UTF-8 JSONC input, Sanitize returns the input with exactly
\* its comments removed: every rune of a // or /* */ comment that starts
\* outside a string literal is dropped, every rune inside a string literal
\* and every other rune outside the comments is kept, in order.
C31_SanitizeRemovesExactlyComments ==
    (call.op = "Sanitize" /\ Jsonc(call.data))
        => call.out = Uncommented(call.data, 1, "code")

====
